---- MODULE Spec2Model ----
(***************************************************************************)
(* A model of the cross-chain transaction tracker (rust/src/main.rs,       *)
(* rust/src/retry.rs, rust/src/config.rs): the retry engine, the shared    *)
(* dedup set and watermarks, the ingestor tasks and the startup.           *)
(*                                                                         *)
(* SpecRetry runs retry_with_backoff alone, on inputs drawn at Init.       *)
(* SpecRetryFair is SpecRetry with the fairness of an awaited future.      *)
(* SpecBackoff runs backoff_durations alone, SpecPublish and               *)
(* SpecPublishFair run publish_event_to_redis alone, SpecIds the event-id  *)
(* construction and SpecDecode the decoding of a Transfer log.             *)
(* SpecPoll runs the EVM poller alone, SpecPollFair with the fairness of   *)
(* its task; SpecRange computes one polling iteration on block numbers     *)
(* beyond those of the pipeline; SpecConfig runs Config::from_env and main *)
(* up to the spawn of the tasks.                                           *)
(* SpecStream runs the EVM streaming session alone, SpecStreamFair with    *)
(* the fairness of its task; SpecSol runs the Solana poll tasks under the  *)
(* join of main; SpecLocks runs the lock operations of the tasks' loop     *)
(* bodies; SpecSpawn runs the spawning of the per-address Solana poll      *)
(* loops in both modes.                                                    *)
(* Spec runs the ingestors of one configuration drawn at Init, under the   *)
(* join of main.  A task                                                   *)
(* takes one step per await point reached; the steps between two accesses  *)
(* of the shared state are one action.  publish_event_to_redis is seen     *)
(* from the ingestor as a call in flight that later returns Ok or Err.     *)
(***************************************************************************)
EXTENDS Integers, Sequences, FiniteSets, Bags, TLC

(***************************************************************************)
(* Inputs of the retry engine.  A factor is the f64 `factor`, held as the  *)
(* rational num/den so that non-integral factors and the rounding of       *)
(* backoff_durations are computed, not assumed.  A base is                 *)
(* base.as_millis().                                                       *)
(***************************************************************************)
MaxAttempts == 4

Bases == {1, 3, 10}

Factors == {[num |-> 1, den |-> 1], [num |-> 2, den |-> 1], [num |-> 3, den |-> 2]}

\* The bases backoff_durations is called with when it is run alone: those of
\* the retry engine and the 100 ms of test_backoff_durations_basic.
BackoffBases == Bases \cup {100}

VARIABLES
    r_attempts,   \* `attempts`
    r_base,       \* `base`, in milliseconds
    r_factor,     \* `factor`
    r_pc,         \* where retry_with_backoff stands
    r_delays,     \* the part of `delays` the for loop has not consumed
    r_hist,       \* the outcome of every invocation of `operation` so far
    r_sleeps,     \* every sleep taken so far, in milliseconds
    r_last_err,   \* `last_err`
    r_result      \* the value returned

VARIABLES
    cfg,             \* the configuration, immutable after startup
    processed_txs,   \* the dedup set
    last_eth_block,  \* the EVM watermark
    last_sol_slot,   \* the Solana watermark
    handed,          \* history: the bag of events handed to publish_event_to_redis
    inflight,        \* the calls of publish_event_to_redis that have not returned
    sess,            \* the EVM ingestor task: the state of its session loop
    sessions,        \* how many streaming sessions have been started
    n_pc,            \* track_native_transfers: where it stands
    n_block,         \* track_native_transfers: the number of the block in hand
    n_i,             \* track_native_transfers: the index of the transaction in hand
    e_pc,            \* track_erc20_transfers: where it stands
    e_log,           \* track_erc20_transfers: the log in hand
    p_pc,            \* poll_eth_blocks: where it stands
    p_current,       \* poll_eth_blocks: `current`
    p_block,         \* poll_eth_blocks: `block_num`
    p_ti,            \* process_eth_block: the index of the transaction in hand
    p_li,            \* process_eth_block: the index of the receipt log in hand
    s_pc,            \* per Solana poll task: where it stands
    s_sigs,          \* per Solana poll task: the signature list of this cycle
    s_i,             \* per Solana poll task: the index of the signature in hand
    b_log,           \* publish_event_to_redis: per attempt, the broker connection
                     \* it acquired and the topic it published on
    main_pc,         \* main: joining its two tasks, or returned
    sol_main,        \* the Solana ingestor task (track_solana_transfers)
    f_in,            \* the input of a function of the event model run alone
    f_out            \* what that function returned, <<>> before it has

retryVars == <<r_attempts, r_base, r_factor, r_pc, r_delays, r_hist, r_sleeps,
               r_last_err, r_result>>

histVars == <<handed, inflight>>

streamVars == <<sess, sessions, n_pc, n_block, n_i, e_pc, e_log>>

pollVars == <<p_pc, p_current, p_block, p_ti, p_li>>

solVars == <<s_pc, s_sigs, s_i>>

pubVars == <<b_log>>

supVars == <<main_pc, sol_main>>

fnVars == <<f_in, f_out>>

pipeVars == <<cfg, processed_txs, last_eth_block, last_sol_slot, histVars,
              streamVars, pollVars, solVars, pubVars, supVars, fnVars>>

vars == <<retryVars, pipeVars>>

RECURSIVE Pow(_, _)
Pow(b, e) == IF e = 0 THEN 1 ELSE b * Pow(b, e - 1)

\* f64::round of the non-negative quotient a / b: half away from zero.
RoundDiv(a, b) == (2 * a + b) \div (2 * b)

\* retry.rs backoff_durations with the loop running over 0..=attempts.
backoff_durations_inclusive(attempts, base, factor) ==
    [i \in 1..(attempts + 1) |->
        RoundDiv(base * Pow(factor.num, i - 1), Pow(factor.den, i - 1))]

\* retry.rs backoff_durations, with the first delay scaled by one more factor.
backoff_durations_shifted(attempts, base, factor) ==
    [i \in 1..attempts |->
        RoundDiv(base * Pow(factor.num, i), Pow(factor.den, i))]

\* retry.rs backoff_durations: element i (from 0) is round(base_ms * factor^i).
backoff_durations(attempts, base, factor) ==
    [i \in 1..attempts |->
        RoundDiv(base * Pow(factor.num, i - 1), Pow(factor.den, i - 1))]

\* The operation's k-th invocation returns Ok(k) or Err(k): the environment
\* chooses which, and the payload names the invocation it came from.
Ok(k) == [ok |-> TRUE, val |-> k]
Err(k) == [ok |-> FALSE, val |-> k]

\* Nothing returned yet (invocations are numbered from 1).
NoResult == [ok |-> FALSE, val |-> 0]

RetryStartState ==
    /\ r_attempts \in 0..MaxAttempts
    /\ r_base \in Bases
    /\ r_factor \in Factors
    /\ r_pc = "start"
    /\ r_delays = <<>>
    /\ r_hist = <<>>
    /\ r_sleeps = <<>>
    /\ r_last_err = NoResult
    /\ r_result = NoResult

\* retry.rs 28-33 with `delays` one entry longer (attempts instead of attempts - 1).
RetryStartNoDecrement ==
    /\ r_pc = "start"
    /\ IF r_attempts = 0
         THEN r_pc' = "only" /\ UNCHANGED r_delays
         ELSE /\ r_delays' = backoff_durations(r_attempts, r_base, r_factor)
              /\ r_pc' = "first"
    /\ UNCHANGED <<r_attempts, r_base, r_factor, r_hist, r_sleeps, r_last_err, r_result>>
    /\ UNCHANGED pipeVars

\* retry.rs 28-33: the attempts == 0 branch is taken, or `delays` is computed.
RetryStart ==
    /\ r_pc = "start"
    /\ IF r_attempts = 0
         THEN r_pc' = "only" /\ UNCHANGED r_delays
         ELSE /\ r_delays' = backoff_durations(r_attempts - 1, r_base, r_factor)
              /\ r_pc' = "first"
    /\ UNCHANGED <<r_attempts, r_base, r_factor, r_hist, r_sleeps, r_last_err, r_result>>
    /\ UNCHANGED pipeVars

\* retry.rs 30: attempts == 0, `return operation().await`.
RetryOnly ==
    /\ r_pc = "only"
    /\ \E ok \in BOOLEAN :
          /\ r_hist' = Append(r_hist, ok)
          /\ r_result' = IF ok THEN Ok(Len(r_hist) + 1) ELSE Err(Len(r_hist) + 1)
    /\ r_pc' = "done"
    /\ UNCHANGED <<r_attempts, r_base, r_factor, r_delays, r_sleeps, r_last_err>>
    /\ UNCHANGED pipeVars

\* retry.rs 36-40: the first attempt, with no delay before it.
RetryFirst ==
    /\ r_pc = "first"
    /\ \E ok \in BOOLEAN :
          /\ r_hist' = Append(r_hist, ok)
          /\ IF ok
               THEN /\ r_result' = Ok(Len(r_hist) + 1)
                    /\ r_pc' = "done"
                    /\ UNCHANGED r_last_err
               ELSE /\ r_last_err' = Err(Len(r_hist) + 1)
                    /\ r_pc' = "loop"
                    /\ UNCHANGED r_result
    /\ UNCHANGED <<r_attempts, r_base, r_factor, r_delays, r_sleeps>>
    /\ UNCHANGED pipeVars

\* retry.rs 42-43: the loop takes the next delay and sleeps it.
RetrySleep ==
    /\ r_pc = "loop"
    /\ r_delays # <<>>
    /\ r_sleeps' = Append(r_sleeps, Head(r_delays))
    /\ r_delays' = Tail(r_delays)
    /\ r_pc' = "retry"
    /\ UNCHANGED <<r_attempts, r_base, r_factor, r_hist, r_last_err, r_result>>
    /\ UNCHANGED pipeVars

\* retry.rs 44-47 with `last_err` left at the first error.
RetryAgainKeepFirstErr ==
    /\ r_pc = "retry"
    /\ \E ok \in BOOLEAN :
          /\ r_hist' = Append(r_hist, ok)
          /\ IF ok
               THEN /\ r_result' = Ok(Len(r_hist) + 1)
                    /\ r_pc' = "done"
               ELSE /\ r_pc' = "loop"
                    /\ UNCHANGED r_result
    /\ UNCHANGED <<r_attempts, r_base, r_factor, r_delays, r_sleeps, r_last_err>>
    /\ UNCHANGED pipeVars

\* retry.rs 44-47: a retry; success returns, failure replaces `last_err`.
RetryAgain ==
    /\ r_pc = "retry"
    /\ \E ok \in BOOLEAN :
          /\ r_hist' = Append(r_hist, ok)
          /\ IF ok
               THEN /\ r_result' = Ok(Len(r_hist) + 1)
                    /\ r_pc' = "done"
                    /\ UNCHANGED r_last_err
               ELSE /\ r_last_err' = Err(Len(r_hist) + 1)
                    /\ r_pc' = "loop"
                    /\ UNCHANGED r_result
    /\ UNCHANGED <<r_attempts, r_base, r_factor, r_delays, r_sleeps>>
    /\ UNCHANGED pipeVars

\* retry.rs 49: `delays` is exhausted, `Err(last_err)`.
RetryExhausted ==
    /\ r_pc = "loop"
    /\ r_delays = <<>>
    /\ r_result' = r_last_err
    /\ r_pc' = "done"
    /\ UNCHANGED <<r_attempts, r_base, r_factor, r_delays, r_hist, r_sleeps, r_last_err>>
    /\ UNCHANGED pipeVars

RetryStep ==
    \/ RetryStart
    \/ RetryOnly
    \/ RetryFirst
    \/ RetrySleep
    \/ RetryAgain
    \/ RetryExhausted

(***************************************************************************)
(* publish_event_to_redis (main.rs 27-63): retry_with_backoff with 8       *)
(* attempts, a base of 500 ms and a factor of 2.0, around a closure that   *)
(* asks the client for a connection and publishes the payload on it.       *)
(***************************************************************************)
PublishAttempts == 8

PublishBaseMs == 500

PublishFactor == [num |-> 2, den |-> 1]

Channel == "cross_chain_events"

\* The connections acquired so far; a connection is named by its rank.
Connections == {b_log[k].conn[1] : k \in {j \in 1..Len(b_log) : b_log[j].conn # <<>>}}

\* The step of retry_with_backoff around one invocation of the closure that
\* returned `ok` (retry.rs 36-40, 44-47).
PublishOutcome(ok) ==
    /\ r_hist' = Append(r_hist, ok)
    /\ IF ok
         THEN /\ r_result' = Ok(Len(r_hist) + 1)
              /\ r_pc' = "done"
              /\ UNCHANGED r_last_err
         ELSE /\ r_last_err' = Err(Len(r_hist) + 1)
              /\ r_pc' = "loop"
              /\ UNCHANGED r_result

\* main.rs 35-47 with the connection of an earlier attempt kept and used
\* again when there is one.
PublishAttemptCached ==
    /\ r_pc \in {"first", "retry"}
    /\ \E connected \in BOOLEAN, published \in BOOLEAN :
          /\ b_log' = Append(b_log,
                  IF connected \/ Connections # {}
                    THEN [conn |-> <<IF Connections # {}
                                      THEN CHOOSE c \in Connections : TRUE
                                      ELSE 1>>,
                          topic |-> <<Channel>>]
                    ELSE [conn |-> <<>>, topic |-> <<>>])
          /\ PublishOutcome((connected \/ Connections # {}) /\ published)
    /\ UNCHANGED <<r_attempts, r_base, r_factor, r_delays, r_sleeps>>
    /\ UNCHANGED <<cfg, processed_txs, last_eth_block, last_sol_slot, histVars,
                   streamVars, pollVars, solVars, supVars, fnVars>>

\* main.rs 35-47: one invocation of the closure.  get_multiplexed_async_connection
\* returns a new connection or an error; on a connection the payload is
\* published on the topic, and the publish returns Ok or an error.
PublishAttempt ==
    /\ r_pc \in {"first", "retry"}
    /\ \E connected \in BOOLEAN, published \in BOOLEAN :
          /\ b_log' = Append(b_log,
                  IF connected
                    THEN [conn |-> <<Cardinality(Connections) + 1>>,
                          topic |-> <<Channel>>]
                    ELSE [conn |-> <<>>, topic |-> <<>>])
          /\ PublishOutcome(connected /\ published)
    /\ UNCHANGED <<r_attempts, r_base, r_factor, r_delays, r_sleeps>>
    /\ UNCHANGED <<cfg, processed_txs, last_eth_block, last_sol_slot, histVars,
                   streamVars, pollVars, solVars, supVars, fnVars>>

\* retry.rs 6-14: backoff_durations called on its own; r_attempts, r_base and
\* r_factor hold the arguments and r_delays receives the vector returned.
BackoffCall ==
    /\ r_pc = "call"
    /\ r_delays' = backoff_durations(r_attempts, r_base, r_factor)
    /\ r_pc' = "returned"
    /\ UNCHANGED <<r_attempts, r_base, r_factor, r_hist, r_sleeps, r_last_err, r_result>>
    /\ UNCHANGED pipeVars

(***************************************************************************)
(* The shared state and the event model.                                   *)
(***************************************************************************)

\* Option<T>: <<>> is None, <<v>> is Some(v).
NoneV == <<>>
Some(v) == <<v>>

\* main.rs 228: main is still awaiting try_join!; once it has returned the
\* runtime is dropped and no task takes another step.
Alive == main_pc = "joining"

\* A configured entry that is neither an EVM address nor a Solana pubkey.
Unparseable == "junk"

\* str::parse::<Address> (main.rs 153, 390).
ParseAddress(s) == IF s = Unparseable THEN NoneV ELSE Some(s)

\* Pubkey::from_str (main.rs 746, 779).
ParsePubkey(s) == IF s = Unparseable THEN NoneV ELSE Some(s)

\* main.rs 150-154: every entry parses; otherwise `expect` panics.
AllAddressesParse(list) == \A i \in DOMAIN list : ParseAddress(list[i]) # NoneV

\* main.rs 744-747: every entry parses; otherwise `expect` panics.
AllPubkeysParse(list) == \A i \in DOMAIN list : ParsePubkey(list[i]) # NoneV

\* main.rs 388-391: filter_map(|s| s.parse().ok()), the entries that parse.
ParsedAddresses(list) == SelectSeq(list, LAMBDA s : ParseAddress(s) # NoneV)

\* main.rs 777-780: filter_map(|s| Pubkey::from_str(s).ok()).
ParsedPubkeys(list) == SelectSeq(list, LAMBDA s : ParsePubkey(s) # NoneV)

\* main.rs 293-294, 356-357, 704-705 with the comparison dropped.
AdvanceAlways(last, n) == Some(n)

\* main.rs 293-294, 356-357, 704-705: the watermark moves only to a strictly
\* greater block or slot.
AdvanceIfGreater(last, n) == IF last = NoneV \/ n > last[1] THEN Some(n) ELSE last

\* main.rs 88-102: an Event; `network` is the configured label of the chain
\* and is the same in every event of a chain.
Event(id, chain, hash, ts, from, to, value, type, slot, token) ==
    [event_id |-> id, chain |-> chain, tx_hash |-> hash, timestamp |-> ts,
     from |-> from, to |-> to, value |-> value, event_type |-> type,
     slot |-> slot, token |-> token]

\* History: the event `ev`, built from the chain record `src` by task `by`,
\* is handed to publish_event_to_redis.
Hand(ev, src, by) == handed (+) SetToBag({[ev |-> ev, src |-> src, by |-> by]})

\* A call of publish_event_to_redis by task `by`, for the event with this id.
Call(id, by) == SetToBag({[event_id |-> id, by |-> by]})

\* The calls in flight that are not of the tasks in `tasks`: a future that is
\* dropped takes the call it awaits with it.
DropCalls(tasks) ==
    LET kept == {c \in BagToSet(inflight) : c.by \notin tasks}
    IN [c \in kept |-> CopiesIn(c, inflight)]

\* How many elements of the bag satisfy P, copies counted.
CountIn(bag, P(_)) ==
    LET hs == {h \in BagToSet(bag) : P(h)}
        RECURSIVE Sum(_)
        Sum(S) == IF S = {} THEN 0
                  ELSE LET h == CHOOSE x \in S : TRUE
                       IN CopiesIn(h, bag) + Sum(S \ {h})
    IN Sum(hs)

(***************************************************************************)
(* The EVM chain the RPC endpoint serves.  0xa1 is a native transfer of    *)
(* the watched address 0xw that also carries two token transfers of 0xw;   *)
(* 0xb2 is a call between strangers with a token transfer to 0xw, a        *)
(* four-topic Transfer log and a token transfer between strangers; 0xc3    *)
(* is a native transfer to 0xw.                                             *)
(***************************************************************************)
MaxBlock == 3

ZeroAddress == "0x00"

TransferSig == "keccak(Transfer(address,address,uint256))"

\* A 32-byte topic holding an address: 12 zero bytes, then its 20 bytes.
Topic(addr) == <<"000000000000000000000000", addr>>

\* main.rs 247-248, 526-527: Address::from(H256) keeps the low 20 bytes.
AddressFromTopic(t) == t[2]

EthLogs ==
    ("L1" :> [transaction_hash |-> "0xa1", log_index |-> Some(0), address |-> "0xt1",
              topics |-> <<TransferSig, Topic("0xw"), Topic("0xx")>>,
              data |-> 42, block_number |-> Some(1)])
 @@ ("L2" :> [transaction_hash |-> "0xa1", log_index |-> Some(1), address |-> "0xt2",
              topics |-> <<TransferSig, Topic("0xy"), Topic("0xw")>>,
              data |-> 7, block_number |-> Some(1)])
 @@ ("L3" :> [transaction_hash |-> "0xb2", log_index |-> Some(0), address |-> "0xt1",
              topics |-> <<TransferSig, Topic("0xx"), Topic("0xw")>>,
              data |-> 3, block_number |-> Some(2)])
 @@ ("L4" :> [transaction_hash |-> "0xb2", log_index |-> Some(1), address |-> "0xn1",
              topics |-> <<TransferSig, Topic("0xw"), Topic("0xx"), Topic("0x01")>>,
              data |-> 0, block_number |-> Some(2)])
 @@ ("L5" :> [transaction_hash |-> "0xb2", log_index |-> Some(2), address |-> "0xt1",
              topics |-> <<TransferSig, Topic("0xx"), Topic("0xy")>>,
              data |-> 8, block_number |-> Some(2)])

EthLogIds == DOMAIN EthLogs

EthTxs ==
    ("0xa1" :> [hash |-> "0xa1", from |-> "0xw", to |-> Some("0xx"), value |-> 5,
                logs |-> <<"L1", "L2">>])
 @@ ("0xb2" :> [hash |-> "0xb2", from |-> "0xx", to |-> Some("0xy"), value |-> 0,
                logs |-> <<"L3", "L4", "L5">>])
 @@ ("0xc3" :> [hash |-> "0xc3", from |-> "0xx", to |-> Some("0xw"), value |-> 9,
                logs |-> <<>>])

\* The block with number b, as get_block_with_txs returns it.
EthBlock(b) ==
    [number |-> b, timestamp |-> 1000 + b,
     transactions |-> CASE b = 1 -> <<"0xa1">>
                        [] b = 2 -> <<"0xb2", "0xc3">>
                        [] OTHER -> <<>>]

BlockNumbers == 0..MaxBlock

\* to_string() of a U256 or a u64: the decimal rendering.
Decimal(n) == ToString(n)

\* main.rs 252, 328, 498: format!("eth:{:?}", tx_hash).
EthEventId(hash) == "eth:" \o hash

\* main.rs 536 with the id of the streaming tracker (252), which leaves the
\* log index out.
EthLogEventIdNoIndex(hash, log_index) == "eth:" \o hash

\* main.rs 536: format!("eth:{:?}:log{}", tx.hash, log.log_index.unwrap_or_default()).
EthLogEventId(hash, log_index) ==
    "eth:" \o hash \o ":log" \o Decimal(IF log_index = NoneV THEN 0 ELSE log_index[1])

\* `watched_addresses`, the parsed list of the EVM ingestor (main.rs 150-154,
\* 388-391): in a running streaming session every entry has parsed.
watched_addresses == ParsedAddresses(cfg.watched_eth)

\* Vec::contains on the parsed watched list.
Watched(addr) == \E i \in DOMAIN watched_addresses : watched_addresses[i] = addr

\* main.rs 335-347, 500-512: the event of a native transfer.
NativeEvent(tx, block) ==
    Event(EthEventId(tx.hash), "ethereum", tx.hash, Decimal(block.timestamp),
          tx.from, IF tx.to = NoneV THEN ZeroAddress ELSE tx.to[1],
          Decimal(tx.value), "transfer", NoneV, NoneV)

\* main.rs 271-283: the event of a streamed Transfer log; ts is the block's
\* timestamp, or "" when the block could not be fetched.
StreamErc20Event(log, ts) ==
    Event(EthEventId(log.transaction_hash), "ethereum", log.transaction_hash, ts,
          AddressFromTopic(log.topics[2]), AddressFromTopic(log.topics[3]),
          Decimal(log.data), "erc20_transfer", NoneV, NoneV)

\* main.rs 538-554: the event of a Transfer log found in a receipt.
PollErc20Event(tx, log, block) ==
    Event(EthLogEventId(tx.hash, log.log_index), "ethereum", tx.hash,
          Decimal(block.timestamp),
          AddressFromTopic(log.topics[2]), AddressFromTopic(log.topics[3]),
          Decimal(log.data), "erc20_transfer", NoneV,
          Some([address |-> log.address, symbol |-> "", decimals |-> 18]))

(***************************************************************************)
(* The EVM ingestor in streaming mode (the URL starts with "ws"): the      *)
(* session loop of main.rs 133-195 and the two sub-trackers it races.      *)
(***************************************************************************)
MaxSessions == 2

\* No log in hand.
NoLog == "-"

\* What no step of the EVM streaming session touches.
StreamFrame ==
    /\ Alive
    /\ UNCHANGED <<cfg, retryVars, pubVars, supVars, fnVars, pollVars, solVars, last_sol_slot>>

\* main.rs 180-194: a sub-tracker has returned; select! drops the other one
\* where it stands, and the 5 s cooldown starts.
EndSession ==
    /\ sess' = "cooldown"
    /\ n_pc' = "off"
    /\ n_block' = 0
    /\ n_i' = 1
    /\ e_pc' = "off"
    /\ e_log' = NoLog
    /\ inflight' = DropCalls({"native", "erc20"})

\* main.rs 139-146: Ws::connect fails; the 10 s sleep starts.
EthConnectFailed ==
    /\ sess = "connecting"
    /\ StreamFrame
    /\ sess' = "backoff"
    /\ UNCHANGED <<sessions, n_pc, n_block, n_i, e_pc, e_log,
                   processed_txs, last_eth_block, histVars>>

\* main.rs 143-144: the 10 s sleep ends, `continue`.
EthBackoffDone ==
    /\ sess = "backoff"
    /\ StreamFrame
    /\ sess' = "connecting"
    /\ UNCHANGED <<sessions, n_pc, n_block, n_i, e_pc, e_log,
                   processed_txs, last_eth_block, histVars>>

\* main.rs 148-192 with the fungible-token tracker started whatever the
\* watched list.
EthConnectedBothTrackers ==
    /\ sess = "connecting"
    /\ sessions < MaxSessions
    /\ StreamFrame
    /\ IF AllAddressesParse(cfg.watched_eth)
         THEN /\ sess' = "running"
              /\ sessions' = sessions + 1
              /\ n_pc' = "sub"
              /\ e_pc' = "sub"
         ELSE /\ sess' = "panicked"
              /\ UNCHANGED <<sessions, n_pc, e_pc>>
    /\ UNCHANGED <<n_block, n_i, e_log, processed_txs, last_eth_block, histVars>>

\* main.rs 147-191: connected; the watched list is parsed, and an entry
\* that does not parse panics the task.  Otherwise the native tracker is
\* created, and the ERC-20 tracker unless the watched list is empty.
EthConnected ==
    /\ sess = "connecting"
    /\ sessions < MaxSessions
    /\ StreamFrame
    /\ IF AllAddressesParse(cfg.watched_eth)
         THEN /\ sess' = "running"
              /\ sessions' = sessions + 1
              /\ n_pc' = "sub"
              /\ e_pc' = IF watched_addresses = <<>> THEN "off" ELSE "sub"
         ELSE /\ sess' = "panicked"
              /\ UNCHANGED <<sessions, n_pc, e_pc>>
    /\ UNCHANGED <<n_block, n_i, e_log, processed_txs, last_eth_block, histVars>>

\* main.rs 193-194 with the dedup set emptied when a session is restarted.
EthCooldownDoneFreshSet ==
    /\ sess = "cooldown"
    /\ StreamFrame
    /\ sess' = "connecting"
    /\ processed_txs' = {}
    /\ UNCHANGED <<sessions, n_pc, n_block, n_i, e_pc, e_log, last_eth_block, histVars>>

\* main.rs 193-194 with the trackers restarted on the old connection.
EthCooldownDoneNoReconnect ==
    /\ sess = "cooldown"
    /\ sessions < MaxSessions
    /\ StreamFrame
    /\ sess' = "running"
    /\ sessions' = sessions + 1
    /\ n_pc' = "sub"
    /\ e_pc' = IF watched_addresses = <<>> THEN "off" ELSE "sub"
    /\ UNCHANGED <<n_block, n_i, e_log, processed_txs, last_eth_block, histVars>>

\* main.rs 193-194: the 5 s cooldown ends and the loop reconnects.
EthCooldownDone ==
    /\ sess = "cooldown"
    /\ StreamFrame
    /\ sess' = "connecting"
    /\ UNCHANGED <<sessions, n_pc, n_block, n_i, e_pc, e_log,
                   processed_txs, last_eth_block, histVars>>

\* main.rs 313: subscribe_blocks; an error returns from the tracker.
NativeSubscribe ==
    /\ n_pc = "sub"
    /\ StreamFrame
    /\ \E ok \in BOOLEAN :
          IF ok THEN n_pc' = "next" /\ UNCHANGED <<sess, n_block, n_i, e_pc, e_log, inflight>>
                ELSE EndSession
    /\ UNCHANGED <<sessions, processed_txs, last_eth_block, handed>>

\* main.rs 316-320, 361-374: the block stream ends and the tracker returns,
\* or it yields a header and the block is fetched with its transactions.  A
\* header without hash, a block not found and a fetch error only log.
NativeNext ==
    /\ n_pc = "next"
    /\ StreamFrame
    /\ \/ EndSession
       \/ \E b \in BlockNumbers :
             /\ n_block' = b
             /\ n_i' = 1
             /\ n_pc' = IF EthBlock(b).transactions = <<>> THEN "wm" ELSE "txs"
             /\ UNCHANGED <<sess, e_pc, e_log, inflight>>
    /\ UNCHANGED <<sessions, processed_txs, last_eth_block, handed>>

NativeTxInHand == EthTxs[EthBlock(n_block).transactions[n_i]]

\* main.rs 322-327: the transaction touches a watched address.
NativeMatches(tx) ==
    \/ tx.from # ZeroAddress /\ Watched(tx.from)
    \/ tx.to # NoneV /\ Watched(tx.to[1])

\* main.rs 327-333: the transaction matches and its id is not in the set.
NativeEmits(tx) ==
    /\ NativeMatches(tx)
    /\ EthEventId(tx.hash) \notin processed_txs

\* main.rs 321: the for loop takes the next transaction, or ends.
NativeNextTx ==
    /\ n_i' = n_i + 1
    /\ n_pc' = IF n_i + 1 > Len(EthBlock(n_block).transactions) THEN "wm" ELSE "txs"

\* main.rs 321-348: one transaction of the block: filtered, tested against
\* the dedup set, and its event handed to the publisher.
NativeTx ==
    /\ n_pc = "txs"
    /\ StreamFrame
    /\ IF NativeEmits(NativeTxInHand)
         THEN /\ handed' = Hand(NativeEvent(NativeTxInHand, EthBlock(n_block)),
                                NativeTxInHand.hash, "native")
              /\ inflight' = inflight (+) Call(EthEventId(NativeTxInHand.hash), "native")
              /\ n_pc' = "publish"
              /\ UNCHANGED n_i
         ELSE NativeNextTx /\ UNCHANGED histVars
    /\ UNCHANGED <<sess, sessions, n_block, e_pc, e_log, processed_txs,
                   last_eth_block>>

\* main.rs 348-350 with the Err propagated by `?`: the tracker returns.
NativePublishedPropagates ==
    /\ n_pc = "publish"
    /\ StreamFrame
    /\ \E ok \in BOOLEAN :
          IF ok THEN /\ inflight' = inflight (-) Call(EthEventId(NativeTxInHand.hash), "native")
                     /\ n_pc' = "insert"
                     /\ UNCHANGED <<sess, n_block, n_i, e_pc, e_log>>
                ELSE EndSession
    /\ UNCHANGED <<sessions, processed_txs, last_eth_block, handed>>

\* main.rs 348-350: publish_event_to_redis returns; an Err is only logged
\* ("failed"), and the insert follows either way.
NativePublished ==
    /\ n_pc = "publish"
    /\ StreamFrame
    /\ inflight' = inflight (-) Call(EthEventId(NativeTxInHand.hash), "native")
    /\ \E ok \in BOOLEAN : n_pc' = IF ok THEN "insert" ELSE "failed"
    /\ UNCHANGED <<sess, sessions, n_block, n_i, e_pc, e_log, processed_txs,
                   last_eth_block, handed>>

\* main.rs 351: the id is inserted; the loop goes on.
NativeInsert ==
    /\ n_pc \in {"insert", "failed"}
    /\ StreamFrame
    /\ processed_txs' = processed_txs \cup {EthEventId(NativeTxInHand.hash)}
    /\ NativeNextTx
    /\ UNCHANGED <<sess, sessions, n_block, e_pc, e_log, last_eth_block, histVars>>

\* main.rs 354-359: the block is done; the watermark.
NativeWatermark ==
    /\ n_pc = "wm"
    /\ StreamFrame
    /\ last_eth_block' = AdvanceIfGreater(last_eth_block, n_block)
    /\ n_pc' = "next"
    /\ n_block' = 0
    /\ n_i' = 1
    /\ UNCHANGED <<sess, sessions, e_pc, e_log, processed_txs, histVars>>

\* main.rs 241-242: subscribe_logs; an error returns from the tracker.
Erc20Subscribe ==
    /\ e_pc = "sub"
    /\ StreamFrame
    /\ \E ok \in BOOLEAN :
          IF ok THEN e_pc' = "next" /\ UNCHANGED <<sess, n_pc, n_block, n_i, e_log, inflight>>
                ELSE EndSession
    /\ UNCHANGED <<sessions, processed_txs, last_eth_block, handed>>

\* main.rs 245, 301-302: the log stream yields a log, or ends and the
\* tracker returns.
Erc20Next ==
    /\ e_pc = "next"
    /\ StreamFrame
    /\ \/ EndSession
       \/ \E l \in EthLogIds :
             /\ e_log' = l
             /\ e_pc' = "log"
             /\ UNCHANGED <<sess, n_pc, n_block, n_i, inflight>>
    /\ UNCHANGED <<sessions, processed_txs, last_eth_block, handed>>

\* main.rs 246-250: three topics, and from or to is watched.
Erc20Matches(log) ==
    /\ Len(log.topics) = 3
    /\ \/ Watched(AddressFromTopic(log.topics[2]))
       \/ Watched(AddressFromTopic(log.topics[3]))

\* main.rs 246-257 with an emission gate on the watermark.
Erc20EmitsAboveWatermark(log) ==
    /\ Erc20Matches(log)
    /\ EthEventId(log.transaction_hash) \notin processed_txs
    /\ (log.block_number = NoneV \/ last_eth_block = NoneV
        \/ log.block_number[1] >= last_eth_block[1])

\* main.rs 246-257: the log matches and its id is not in the set.
Erc20Emits(log) ==
    /\ Erc20Matches(log)
    /\ EthEventId(log.transaction_hash) \notin processed_txs

\* main.rs 259-269: the timestamp of the log's block, "" when the log has
\* no block number or the block cannot be fetched.
Erc20Timestamps(log) ==
    IF log.block_number = NoneV THEN {""}
    ELSE {"", Decimal(EthBlock(log.block_number[1]).timestamp)}

\* main.rs 246-285: the log in hand: filtered, tested against the dedup
\* set, its block fetched for the timestamp, its event handed to the
\* publisher.
Erc20Log ==
    /\ e_pc = "log"
    /\ StreamFrame
    /\ IF Erc20Emits(EthLogs[e_log])
         THEN /\ \E ts \in Erc20Timestamps(EthLogs[e_log]) :
                    handed' = Hand(StreamErc20Event(EthLogs[e_log], ts), e_log, "erc20")
              /\ inflight' = inflight (+)
                                 Call(EthEventId(EthLogs[e_log].transaction_hash), "erc20")
              /\ e_pc' = "publish"
              /\ UNCHANGED e_log
         ELSE e_pc' = "next" /\ e_log' = NoLog /\ UNCHANGED histVars
    /\ UNCHANGED <<sess, sessions, n_pc, n_block, n_i, processed_txs,
                   last_eth_block>>

\* main.rs 285-287: publish_event_to_redis returns; an Err is only logged
\* ("failed"), and the insert follows either way.
Erc20Published ==
    /\ e_pc = "publish"
    /\ StreamFrame
    /\ inflight' = inflight (-) Call(EthEventId(EthLogs[e_log].transaction_hash), "erc20")
    /\ \E ok \in BOOLEAN : e_pc' = IF ok THEN "insert" ELSE "failed"
    /\ UNCHANGED <<sess, sessions, n_pc, n_block, n_i, e_log, processed_txs,
                   last_eth_block, handed>>

\* main.rs 288: the id is inserted.
Erc20Insert ==
    /\ e_pc \in {"insert", "failed"}
    /\ StreamFrame
    /\ processed_txs' = processed_txs \cup {EthEventId(EthLogs[e_log].transaction_hash)}
    /\ IF EthLogs[e_log].block_number = NoneV
         THEN e_pc' = "next" /\ e_log' = NoLog
         ELSE e_pc' = "wm" /\ UNCHANGED e_log
    /\ UNCHANGED <<sess, sessions, n_pc, n_block, n_i, last_eth_block, histVars>>

\* main.rs 290-297: the watermark.
Erc20Watermark ==
    /\ e_pc = "wm"
    /\ StreamFrame
    /\ last_eth_block' = AdvanceIfGreater(last_eth_block, EthLogs[e_log].block_number[1])
    /\ e_pc' = "next"
    /\ e_log' = NoLog
    /\ UNCHANGED <<sess, sessions, n_pc, n_block, n_i, processed_txs, histVars>>

StreamStep ==
    \/ EthConnectFailed
    \/ EthBackoffDone
    \/ EthConnected
    \/ EthCooldownDone
    \/ NativeSubscribe
    \/ NativeNext
    \/ NativeTx
    \/ NativePublished
    \/ NativeInsert
    \/ NativeWatermark
    \/ Erc20Subscribe
    \/ Erc20Next
    \/ Erc20Log
    \/ Erc20Published
    \/ Erc20Insert
    \/ Erc20Watermark

(***************************************************************************)
(* The EVM ingestor in polling mode (any other URL): poll_eth_blocks and   *)
(* process_eth_block.                                                       *)
(***************************************************************************)
Lookback == 10

\* What no step of the EVM poller touches.
PollFrame ==
    /\ Alive
    /\ UNCHANGED <<cfg, retryVars, pubVars, supVars, fnVars, streamVars, solVars, last_sol_slot>>

\* u64::saturating_sub.
SaturatingSub(a, b) == IF a > b THEN a - b ELSE 0

\* main.rs 405-434 with a first iteration that starts at the head.
StartBlockAtHead(last, current) ==
    IF last = NoneV THEN current
    ELSE IF current < last[1] THEN SaturatingSub(current, Lookback)
    ELSE last[1]

\* main.rs 405-434: `start`.
StartBlock(last, current) ==
    IF last = NoneV THEN (IF current > 0 THEN 0 ELSE current)
    ELSE IF current < last[1] THEN SaturatingSub(current, Lookback)
    ELSE last[1]

\* main.rs 409-419 with the watermark set to the block number just read.
RewindToCurrent(last, current) ==
    IF last # NoneV /\ current < last[1]
      THEN Some(current)
      ELSE last

\* main.rs 409-419: the watermark after `start` is computed: rewound on a
\* regression, otherwise left alone.
RewindOnRegression(last, current) ==
    IF last # NoneV /\ current < last[1]
      THEN Some(SaturatingSub(current, Lookback))
      ELSE last

\* main.rs 438 with the range always starting at `start` itself.
RangeStartInclusive(start, current) == start

\* main.rs 438: `range_start`.
RangeStart(start, current) == IF current = start THEN start ELSE start + 1

PollBlockInHand == EthBlock(p_block)

PollTxInHand == EthTxs[PollBlockInHand.transactions[p_ti]]

PollLogInHand == EthLogs[PollTxInHand.logs[p_li]]

\* main.rs 441: the for loop takes the next block number, or ends.
PollNextBlock ==
    IF p_block + 1 > p_current
      THEN p_pc' = "end" /\ p_block' = 0 /\ p_ti' = 1 /\ p_li' = 1
      ELSE p_pc' = "block" /\ p_block' = p_block + 1 /\ p_ti' = 1 /\ p_li' = 1

\* main.rs 442-454: process_eth_block has returned without scanning the
\* block to its end (the block was not fetched, or a publish failed); the
\* caller logs an Err and the for loop takes the next block number.  After
\* the last block of the range the iteration ends all the same ("end_skip").
PollSkipBlock ==
    IF p_block + 1 > p_current
      THEN p_pc' = "end_skip" /\ p_block' = 0 /\ p_ti' = 1 /\ p_li' = 1
      ELSE p_pc' = "block" /\ p_block' = p_block + 1 /\ p_ti' = 1 /\ p_li' = 1

\* main.rs 486: the for loop takes the next transaction, or the block is done.
PollNextTx ==
    IF p_ti + 1 > Len(PollBlockInHand.transactions)
      THEN PollNextBlock
      ELSE p_pc' = "tx" /\ p_ti' = p_ti + 1 /\ p_li' = 1 /\ UNCHANGED p_block

\* main.rs 520: the for loop takes the next log, or the receipt is done.
PollNextLog ==
    IF p_li + 1 > Len(PollTxInHand.logs)
      THEN PollNextTx
      ELSE p_pc' = "log" /\ p_li' = p_li + 1 /\ UNCHANGED <<p_block, p_ti>>

\* main.rs 402-440, 460-462 with an Err of the block-number query
\* returning from poll_eth_blocks.
PollBlockNumberReturnOnErr ==
    /\ p_pc = "num"
    /\ PollFrame
    /\ \/ /\ p_pc' = "off"
          /\ UNCHANGED <<p_current, p_block, p_ti, p_li, last_eth_block>>
       \/ \E current \in BlockNumbers :
             LET start == StartBlock(last_eth_block, current) IN
             /\ last_eth_block' = RewindOnRegression(last_eth_block, current)
             /\ p_current' = current
             /\ IF current >= start
                  THEN /\ p_block' = RangeStart(start, current)
                       /\ p_pc' = IF RangeStart(start, current) <= current
                                    THEN "block" ELSE "end"
                  ELSE p_pc' = "sleep" /\ UNCHANGED p_block
             /\ UNCHANGED <<p_ti, p_li>>
    /\ UNCHANGED <<processed_txs, histVars>>

\* main.rs 402-440, 460-462: the block number is read; `start` is computed
\* under the watermark's lock, which a regression rewinds; the range is set.
PollBlockNumber ==
    /\ p_pc = "num"
    /\ PollFrame
    /\ \/ /\ p_pc' = "sleep"
          /\ UNCHANGED <<p_current, p_block, p_ti, p_li, last_eth_block>>
       \/ \E current \in BlockNumbers :
             LET start == StartBlock(last_eth_block, current) IN
             /\ last_eth_block' = RewindOnRegression(last_eth_block, current)
             /\ p_current' = current
             /\ IF current >= start
                  THEN /\ p_block' = RangeStart(start, current)
                       /\ p_pc' = IF RangeStart(start, current) <= current
                                    THEN "block" ELSE "end"
                  ELSE p_pc' = "sleep" /\ UNCHANGED p_block
             /\ UNCHANGED <<p_ti, p_li>>
    /\ UNCHANGED <<processed_txs, histVars>>

\* main.rs 442-454, 478-486: the block is fetched; an error is logged by
\* the caller, a missing block returns Ok, and either way the loop goes on
\* without the block.
PollFetchBlock ==
    /\ p_pc = "block"
    /\ PollFrame
    /\ \E found \in BOOLEAN :
          IF ~found THEN PollSkipBlock
          ELSE IF PollBlockInHand.transactions # <<>>
            THEN p_pc' = "tx" /\ p_ti' = 1 /\ UNCHANGED <<p_block, p_li>>
            ELSE PollNextBlock
    /\ UNCHANGED <<p_current, processed_txs, last_eth_block, histVars>>

\* main.rs 489-495: the transaction touches a watched address, or the
\* watched list is empty.
PollNativeMatches(tx) ==
    \/ watched_addresses = <<>>
    \/ Watched(tx.from)
    \/ tx.to # NoneV /\ Watched(tx.to[1])

\* main.rs 497-513 with the publish left running, not awaited: the loop
\* goes on to the receipt at once.
PollTxDetached ==
    /\ p_pc = "tx"
    /\ PollFrame
    /\ IF /\ PollNativeMatches(PollTxInHand)
          /\ EthEventId(PollTxInHand.hash) \notin processed_txs
         THEN /\ processed_txs' = processed_txs \cup {EthEventId(PollTxInHand.hash)}
              /\ handed' = Hand(NativeEvent(PollTxInHand, PollBlockInHand),
                                PollTxInHand.hash, "poll")
              /\ inflight' = inflight (+) Call(EthEventId(PollTxInHand.hash), "poll")
         ELSE UNCHANGED <<processed_txs, histVars>>
    /\ p_pc' = "receipt"
    /\ UNCHANGED <<p_current, p_block, p_ti, p_li, last_eth_block>>

\* main.rs 497-513 without the test of the insert's result: the event is
\* handed to the publisher whether or not its id was in the set.
PollTxNoCheck ==
    /\ p_pc = "tx"
    /\ PollFrame
    /\ IF PollNativeMatches(PollTxInHand)
         THEN /\ processed_txs' = processed_txs \cup {EthEventId(PollTxInHand.hash)}
              /\ handed' = Hand(NativeEvent(PollTxInHand, PollBlockInHand),
                                PollTxInHand.hash, "poll")
              /\ inflight' = inflight (+) Call(EthEventId(PollTxInHand.hash), "poll")
              /\ p_pc' = "pub_tx"
         ELSE p_pc' = "receipt" /\ UNCHANGED <<processed_txs, histVars>>
    /\ UNCHANGED <<p_current, p_block, p_ti, p_li, last_eth_block>>

\* main.rs 497-513: one transaction of the block: filtered, its id
\* inserted, and, when the insert was new, its event handed to the publisher.
PollTx ==
    /\ p_pc = "tx"
    /\ PollFrame
    /\ IF /\ PollNativeMatches(PollTxInHand)
          /\ EthEventId(PollTxInHand.hash) \notin processed_txs
         THEN /\ processed_txs' = processed_txs \cup {EthEventId(PollTxInHand.hash)}
              /\ handed' = Hand(NativeEvent(PollTxInHand, PollBlockInHand),
                                PollTxInHand.hash, "poll")
              /\ inflight' = inflight (+) Call(EthEventId(PollTxInHand.hash), "poll")
              /\ p_pc' = "pub_tx"
         ELSE p_pc' = "receipt" /\ UNCHANGED <<processed_txs, histVars>>
    /\ UNCHANGED <<p_current, p_block, p_ti, p_li, last_eth_block>>

\* main.rs 513 with the id taken out of the set again when the publish
\* returns an Err.
PollTxPublishedEvict ==
    /\ p_pc = "pub_tx"
    /\ PollFrame
    /\ inflight' = inflight (-) Call(EthEventId(PollTxInHand.hash), "poll")
    /\ \E ok \in BOOLEAN :
          IF ok THEN /\ p_pc' = "receipt"
                     /\ UNCHANGED <<p_block, p_ti, p_li, processed_txs>>
                ELSE /\ PollSkipBlock
                     /\ processed_txs' = processed_txs \ {EthEventId(PollTxInHand.hash)}
    /\ UNCHANGED <<p_current, last_eth_block, handed>>

\* main.rs 513: publish_event_to_redis returns; `?` returns an Err from
\* process_eth_block, which ends the block.
PollTxPublished ==
    /\ p_pc = "pub_tx"
    /\ PollFrame
    /\ inflight' = inflight (-) Call(EthEventId(PollTxInHand.hash), "poll")
    /\ \E ok \in BOOLEAN :
          IF ok THEN p_pc' = "receipt" /\ UNCHANGED <<p_block, p_ti, p_li>>
                ELSE PollSkipBlock
    /\ UNCHANGED <<p_current, processed_txs, last_eth_block, handed>>

\* main.rs 519-520: the receipt is fetched; without one the logs are skipped.
PollReceipt ==
    /\ p_pc = "receipt"
    /\ PollFrame
    /\ \E found \in BOOLEAN :
          IF found /\ PollTxInHand.logs # <<>>
            THEN p_pc' = "log" /\ p_li' = 1 /\ UNCHANGED <<p_block, p_ti>>
            ELSE PollNextTx
    /\ UNCHANGED <<p_current, processed_txs, last_eth_block, histVars>>

\* main.rs 521-534 without the track-all case of the empty list.
PollLogMatchesWatchedOnly(log) ==
    /\ Len(log.topics) = 3
    /\ log.topics[1] = TransferSig
    /\ \/ Watched(AddressFromTopic(log.topics[2]))
       \/ Watched(AddressFromTopic(log.topics[3]))

\* main.rs 521-534: a Transfer log with three topics whose from or to is
\* watched, or any such log when the watched list is empty.
PollLogMatches(log) ==
    /\ Len(log.topics) = 3
    /\ log.topics[1] = TransferSig
    /\ \/ watched_addresses = <<>>
       \/ Watched(AddressFromTopic(log.topics[2]))
       \/ Watched(AddressFromTopic(log.topics[3]))

\* main.rs 520-555: one log of the receipt: filtered, its id inserted, and,
\* when the insert was new, its event handed to the publisher.
PollLog ==
    /\ p_pc = "log"
    /\ PollFrame
    /\ IF /\ PollLogMatches(PollLogInHand)
          /\ EthLogEventId(PollTxInHand.hash, PollLogInHand.log_index) \notin processed_txs
         THEN /\ processed_txs' = processed_txs \cup
                     {EthLogEventId(PollTxInHand.hash, PollLogInHand.log_index)}
              /\ handed' = Hand(PollErc20Event(PollTxInHand, PollLogInHand, PollBlockInHand),
                                PollTxInHand.logs[p_li], "poll")
              /\ inflight' = inflight (+)
                     Call(EthLogEventId(PollTxInHand.hash, PollLogInHand.log_index), "poll")
              /\ p_pc' = "pub_log"
              /\ UNCHANGED <<p_block, p_ti, p_li>>
         ELSE PollNextLog /\ UNCHANGED <<processed_txs, histVars>>
    /\ UNCHANGED <<p_current, last_eth_block>>

\* main.rs 555: publish_event_to_redis returns; `?` ends the block on Err.
PollLogPublished ==
    /\ p_pc = "pub_log"
    /\ PollFrame
    /\ inflight' = inflight (-)
           Call(EthLogEventId(PollTxInHand.hash, PollLogInHand.log_index), "poll")
    /\ \E ok \in BOOLEAN :
          IF ok THEN PollNextLog ELSE PollSkipBlock
    /\ UNCHANGED <<p_current, processed_txs, last_eth_block, handed>>

\* main.rs 456-457 with one watermark cell shared by the two chains.
PollEndSharedWatermark ==
    /\ p_pc \in {"end", "end_skip"}
    /\ Alive
    /\ UNCHANGED <<cfg, retryVars, pubVars, supVars, fnVars, streamVars, solVars>>
    /\ last_eth_block' = Some(p_current)
    /\ last_sol_slot' = Some(p_current)
    /\ p_pc' = "sleep"
    /\ UNCHANGED <<p_current, p_block, p_ti, p_li, processed_txs, histVars>>

\* main.rs 456-457: the end of the iteration, `*last = Some(current)`.
PollEnd ==
    /\ p_pc \in {"end", "end_skip"}
    /\ PollFrame
    /\ last_eth_block' = Some(p_current)
    /\ p_pc' = "sleep"
    /\ UNCHANGED <<p_current, p_block, p_ti, p_li, processed_txs, histVars>>

\* main.rs 464: the 2 s sleep ends.
PollSleep ==
    /\ p_pc = "sleep"
    /\ PollFrame
    /\ p_pc' = "num"
    /\ UNCHANGED <<p_current, p_block, p_ti, p_li, processed_txs, last_eth_block, histVars>>

PollStep ==
    \/ PollBlockNumber
    \/ PollFetchBlock
    \/ PollTx
    \/ PollTxPublished
    \/ PollReceipt
    \/ PollLog
    \/ PollLogPublished
    \/ PollEnd
    \/ PollSleep

(***************************************************************************)
(* The Solana ingestor: one poll task per watched address (main.rs         *)
(* 782-835) around process_solana_transaction.  The ledger the RPC         *)
(* endpoint serves: s1 touches both watched addresses; s2 is listed for    *)
(* every address but names only A among its static account keys (B is      *)
(* reached through a lookup table) and has no block time.                  *)
(***************************************************************************)
SolLedger ==
    [s1 |-> [slot |-> 2, block_time |-> Some(170), keys |-> {"A", "B"}, decodes |-> TRUE],
     s2 |-> [slot |-> 1, block_time |-> NoneV, keys |-> {"A"}, decodes |-> TRUE]]

\* What get_signatures_for_address may return: the signatures in any order.
SigLists == {<<>>, <<"s1">>, <<"s2">>, <<"s1", "s2">>, <<"s2", "s1">>}

MaxSolTasks == 2

SolTaskIds == 1..MaxSolTasks

\* The pubkey of poll task p: the p-th entry that parsed (main.rs 777-782).
SolAddr(p) == ParsedPubkeys(cfg.watched_sol)[p]

SolTaskName(p) == "sol" \o ToString(p)

\* main.rs 652: format!("sol:{}", signature).
SolEventId(sig) == "sol:" \o sig

\* main.rs 669-672: block_time.unwrap_or(0) rendered as RFC 3339; the
\* rendering is kept symbolic, one string per count of seconds.
Rfc3339(block_time) ==
    "rfc3339:" \o ToString(IF block_time = NoneV THEN 0 ELSE block_time[1])

\* main.rs 682-694.
SolEvent(sig) ==
    Event(SolEventId(sig), "solana", sig, Rfc3339(SolLedger[sig].block_time),
          "", "", "", "solana_tx", Some(SolLedger[sig].slot), NoneV)

SolSig(p) == s_sigs[p][s_i[p]]

\* What no step of a Solana poll task touches.
SolFrame ==
    /\ Alive
    /\ UNCHANGED <<cfg, retryVars, pubVars, supVars, fnVars, streamVars, pollVars, last_eth_block>>

\* The for loop of main.rs 802-820 takes the next signature, or the cycle
\* ends and the task sleeps (832).
SolNextSig(p) ==
    /\ s_i' = [s_i EXCEPT ![p] = @ + 1]
    /\ s_pc' = [s_pc EXCEPT ![p] = IF s_i[p] + 1 > Len(s_sigs[p]) THEN "sleep" ELSE "tx"]

\* main.rs 793-831: the signature list is fetched; an RPC error or a join
\* error leaves nothing to iterate, like an empty list.
SolPoll(p) ==
    /\ s_pc[p] = "poll"
    /\ SolFrame
    /\ \E res \in SigLists :
          /\ s_sigs' = [s_sigs EXCEPT ![p] = res]
          /\ s_i' = [s_i EXCEPT ![p] = 1]
          /\ s_pc' = [s_pc EXCEPT ![p] = IF res = <<>> THEN "sleep" ELSE "tx"]
    /\ UNCHANGED <<processed_txs, last_sol_slot, histVars>>

\* main.rs 653: the membership test of process_solana_transaction.
SolIsDuplicate(sig) == SolEventId(sig) \in processed_txs

\* main.rs 679-681: the transaction decodes and the watched address is
\* among its static account keys.
SolMatches(p, sig) == SolLedger[sig].decodes /\ SolAddr(p) \in SolLedger[sig].keys

\* main.rs 652-656 with the id inserted by the dedup test itself, before the
\* transaction is fetched.
SolProcessInsertFirst(p) ==
    /\ s_pc[p] = "tx"
    /\ SolFrame
    /\ IF SolIsDuplicate(SolSig(p))
         THEN SolNextSig(p) /\ UNCHANGED processed_txs
         ELSE /\ s_pc' = [s_pc EXCEPT ![p] = "fetch"]
              /\ processed_txs' = processed_txs \cup {SolEventId(SolSig(p))}
              /\ UNCHANGED s_i
    /\ UNCHANGED <<s_sigs, last_sol_slot, histVars>>

\* main.rs 652-666 with the membership test after the fetch of the
\* transaction.
SolProcessFetchFirst(p) ==
    /\ s_pc[p] = "tx"
    /\ SolFrame
    /\ s_pc' = [s_pc EXCEPT ![p] = "fetch"]
    /\ UNCHANGED <<s_i, s_sigs, processed_txs, last_sol_slot, histVars>>

\* main.rs 652-656: the dedup test of process_solana_transaction; a
\* duplicate returns Ok.
SolProcess(p) ==
    /\ s_pc[p] = "tx"
    /\ SolFrame
    /\ IF SolIsDuplicate(SolSig(p))
         THEN SolNextSig(p)
         ELSE s_pc' = [s_pc EXCEPT ![p] = "fetch"] /\ UNCHANGED s_i
    /\ UNCHANGED <<s_sigs, processed_txs, last_sol_slot, histVars>>

\* main.rs 658-695: the transaction is fetched (an unparseable signature or
\* an RPC error returns Err, which the caller logs) and decoded; when the
\* watched address is among its keys the event is built and handed to the
\* publisher.
SolFetch(p) ==
    /\ s_pc[p] = "fetch"
    /\ SolFrame
    /\ \E fetched \in BOOLEAN :
          IF ~fetched
            THEN SolNextSig(p) /\ UNCHANGED histVars
            ELSE IF SolMatches(p, SolSig(p))
                   THEN /\ handed' = Hand(SolEvent(SolSig(p)), SolSig(p), SolTaskName(p))
                        /\ inflight' = inflight (+) Call(SolEventId(SolSig(p)), SolTaskName(p))
                        /\ s_pc' = [s_pc EXCEPT ![p] = "publish"]
                        /\ UNCHANGED s_i
                   ELSE /\ s_pc' = [s_pc EXCEPT ![p] = "wm"]
                        /\ UNCHANGED <<s_i, histVars>>
    /\ UNCHANGED <<s_sigs, processed_txs, last_sol_slot>>

\* main.rs 695-697: publish_event_to_redis returns; an Err is only logged
\* ("failed"), and the insert follows either way.
SolPublished(p) ==
    /\ s_pc[p] = "publish"
    /\ SolFrame
    /\ inflight' = inflight (-) Call(SolEventId(SolSig(p)), SolTaskName(p))
    /\ \E ok \in BOOLEAN : s_pc' = [s_pc EXCEPT ![p] = IF ok THEN "insert" ELSE "failed"]
    /\ UNCHANGED <<s_sigs, s_i, processed_txs, last_sol_slot, handed>>

\* main.rs 698: the id is inserted.
SolInsert(p) ==
    /\ s_pc[p] \in {"insert", "failed"}
    /\ SolFrame
    /\ processed_txs' = processed_txs \cup {SolEventId(SolSig(p))}
    /\ s_pc' = [s_pc EXCEPT ![p] = "wm"]
    /\ UNCHANGED <<s_sigs, s_i, last_sol_slot, histVars>>

\* main.rs 702-709: the slot watermark, then the next signature.
SolWatermark(p) ==
    /\ s_pc[p] = "wm"
    /\ SolFrame
    /\ last_sol_slot' = AdvanceIfGreater(last_sol_slot, SolLedger[SolSig(p)].slot)
    /\ SolNextSig(p)
    /\ UNCHANGED <<s_sigs, processed_txs, histVars>>

\* main.rs 832: the 5 s sleep ends.
SolSleep(p) ==
    /\ s_pc[p] = "sleep"
    /\ SolFrame
    /\ s_pc' = [s_pc EXCEPT ![p] = "poll"]
    /\ UNCHANGED <<s_sigs, s_i, processed_txs, last_sol_slot, histVars>>

SolStep ==
    \/ \E p \in SolTaskIds : SolPoll(p)
    \/ \E p \in SolTaskIds : SolProcess(p)
    \/ \E p \in SolTaskIds : SolFetch(p)
    \/ \E p \in SolTaskIds : SolPublished(p)
    \/ \E p \in SolTaskIds : SolInsert(p)
    \/ \E p \in SolTaskIds : SolWatermark(p)
    \/ \E p \in SolTaskIds : SolSleep(p)

(***************************************************************************)
(* The event-id construction run alone, on two chain records drawn at      *)
(* Init.  A record is a native EVM transaction, a Solana transaction, or a *)
(* Transfer log of a receipt; `log` is None for a record that is not a     *)
(* log, and Some(log_index) for a log, log_index being its Option<U256>.   *)
(***************************************************************************)
MaxLogIndex == 2

ChainRecords ==
    {[kind |-> "native", chain |-> "ethereum", tx_hash |-> h, log |-> NoneV] :
        h \in {"0xa1", "0xb2"}}
    \cup
    {[kind |-> "solana", chain |-> "solana", tx_hash |-> g, log |-> NoneV] :
        g \in {"s1", "s2"}}
    \cup
    {[kind |-> "log", chain |-> "ethereum", tx_hash |-> h, log |-> Some(i)] :
        h \in {"0xa1", "0xb2"}, i \in {NoneV} \cup {Some(n) : n \in 0..MaxLogIndex}}

\* The id a record is given: main.rs 328 and 498 (native), 652 (Solana), 536
\* (a log of a receipt, polling mode).
RecordEventId(r) ==
    CASE r.kind = "native" -> EthEventId(r.tx_hash)
      [] r.kind = "solana" -> SolEventId(r.tx_hash)
      [] r.kind = "log" -> EthLogEventId(r.tx_hash, r.log[1])

\* The ids of the two records are built.
IdCall ==
    /\ f_in # <<>>
    /\ f_out = <<>>
    /\ f_out' = <<RecordEventId(f_in[1]), RecordEventId(f_in[2])>>
    /\ UNCHANGED <<f_in, retryVars, cfg, processed_txs, last_eth_block, last_sol_slot,
                   histVars, streamVars, pollVars, solVars, pubVars, supVars>>

(***************************************************************************)
(* The decoding of a Transfer log run alone, on bytes: an address is 20    *)
(* bytes, a topic 32, the data 32.  The ingestors above keep addresses and *)
(* amounts symbolic (Topic, AddressFromTopic, Decimal); these are the same *)
(* conversions on the bytes themselves.                                    *)
(***************************************************************************)
\* The 20-byte address whose first byte is hi and whose last byte is lo.
AddressOf(hi, lo) == [i \in 1..20 |-> IF i = 1 THEN hi ELSE IF i = 20 THEN lo ELSE 0]

TestAddresses == {AddressOf(0, 1), AddressOf(0, 2), AddressOf(171, 205), AddressOf(255, 0)}

TestAmounts == {0, 42, 255, 256, 65537, 16777216}

\* tests.rs 205-208: 32 zero bytes with the address copied into [12..].
PadTopic(a) == [i \in 1..32 |-> IF i <= 12 THEN 0 ELSE a[i - 12]]

\* Address::from(H256) with the high 20 bytes kept.
AddressFromH256High(t) == [i \in 1..20 |-> t[i]]

\* main.rs 247-248, 526-527: Address::from(H256) keeps the low 20 bytes.
AddressFromH256(t) == [i \in 1..20 |-> t[i + 12]]

RECURSIVE ShiftBytes(_, _)
ShiftBytes(v, k) == IF k = 0 THEN v ELSE ShiftBytes(v \div 256, k - 1)

\* The 32-byte big-endian encoding of v (tests.rs 212-214 for v = 42).
BigEndian32(v) == [i \in 1..32 |-> ShiftBytes(v, 32 - i) % 256]

RECURSIVE FromBigEndianAcc(_, _, _)
FromBigEndianAcc(bytes, i, acc) ==
    IF i > Len(bytes) THEN acc
    ELSE FromBigEndianAcc(bytes, i + 1, acc * 256 + bytes[i])

\* main.rs 279, 546: U256::from_big_endian(&log.data.0).
FromBigEndian(bytes) == FromBigEndianAcc(bytes, 1, 0)

\* main.rs 246-279: what track_erc20_transfers decodes from a log with
\* three topics: from, to, and the value rendered in decimal.
DecodeTransfer(log) ==
    [from |-> AddressFromH256(log.topics[2]),
     to |-> AddressFromH256(log.topics[3]),
     value |-> Decimal(FromBigEndian(log.data))]

\* The log in f_in is decoded.
DecodeCall ==
    /\ f_in # <<>>
    /\ f_out = <<>>
    /\ Len(f_in.log.topics) = 3
    /\ f_out' = DecodeTransfer(f_in.log)
    /\ UNCHANGED <<f_in, retryVars, cfg, processed_txs, last_eth_block, last_sol_slot,
                   histVars, streamVars, pollVars, solVars, pubVars, supVars>>

(***************************************************************************)
(* The supervisor: main joins the EVM ingestor task and the Solana         *)
(* ingestor task with try_join! (main.rs 228).                             *)
(***************************************************************************)
\* main.rs 228 with the join ended by the first task that terminates,
\* however it terminates.
MainJoinFirst ==
    /\ main_pc = "joining"
    /\ \/ sess \in {"panicked", "returned"}
       \/ sol_main \in {"panicked", "returned"}
    /\ main_pc' = "failed"
    /\ UNCHANGED <<retryVars, cfg, processed_txs, last_eth_block, last_sol_slot,
                   histVars, streamVars, pollVars, solVars, pubVars, sol_main, fnVars>>

\* main.rs 228: a task has panicked; its JoinHandle yields a JoinError,
\* try_join! returns it at once and `?` returns it from main.
MainJoinErr ==
    /\ main_pc = "joining"
    /\ sess = "panicked" \/ sol_main = "panicked"
    /\ main_pc' = "failed"
    /\ UNCHANGED <<retryVars, cfg, processed_txs, last_eth_block, last_sol_slot,
                   histVars, streamVars, pollVars, solVars, pubVars, sol_main, fnVars>>

\* main.rs 228-230: both tasks have returned; main returns Ok(()).
MainJoinOk ==
    /\ main_pc = "joining"
    /\ sess = "returned"
    /\ sol_main = "returned"
    /\ main_pc' = "finished"
    /\ UNCHANGED <<retryVars, cfg, processed_txs, last_eth_block, last_sol_slot,
                   histVars, streamVars, pollVars, solVars, pubVars, sol_main, fnVars>>

MainStep ==
    \/ MainJoinErr
    \/ MainJoinOk

(***************************************************************************)
(* One iteration of poll_eth_blocks whose block-number query succeeds      *)
(* (main.rs 402-458), as a function of the watermark and of the block      *)
(* number read: the start block, the watermark after the lock of 405-435   *)
(* is released, whether the regression is logged, the block numbers        *)
(* process_eth_block is called with, in order, and the watermark at the    *)
(* end.  An Err of process_eth_block is logged (442-454) and the loop goes *)
(* on, so the calls do not depend on their results.                        *)
(***************************************************************************)
PollIteration(last, current) ==
    LET start == StartBlock(last, current)
        rewound == RewindOnRegression(last, current)
        range_start == RangeStart(start, current)
    IN [start |-> start,
        rewound |-> rewound,
        logged |-> (last # NoneV /\ current < last[1]),
        blocks |-> IF current >= start /\ range_start <= current
                     THEN [i \in 1..(current - range_start + 1) |-> range_start + i - 1]
                     ELSE <<>>,
        last |-> IF current >= start THEN Some(current) ELSE rewound]

\* The block numbers and watermarks an iteration is run on alone.
RangeValues == (0..13) \cup {40, 41, 50, 100}

\* One iteration is computed.
RangeCall ==
    /\ f_out = <<>>
    /\ f_out' = PollIteration(f_in.last, f_in.current)
    /\ UNCHANGED <<f_in, retryVars, cfg, processed_txs, last_eth_block, last_sol_slot,
                   histVars, streamVars, pollVars, solVars, pubVars, supVars>>

(***************************************************************************)
(* The three mutexes (main.rs 120-122) and the tasks' use of them, at the  *)
(* grain of one lock operation.  An iteration of a task's loop is a path:  *)
(* the sequence of its lock acquisitions, accesses under the lock, guard   *)
(* drops and awaits (blocking RPC calls included).  A guard that is a      *)
(* temporary of an `if` condition or of an expression statement is dropped *)
(* at the end of the condition or statement; a guard bound by `let` is     *)
(* dropped at the end of its block.                                        *)
(***************************************************************************)
Locks == {"processed_txs", "last_eth_block", "last_sol_slot"}

Acq(l) == [k |-> "acq", on |-> l]

Rel(l) == [k |-> "rel", on |-> l]

Await(what) == [k |-> "await", on |-> what]

\* HashSet::contains under the lock of the dedup set.
Contains == <<Acq("processed_txs"), [k |-> "test", on |-> "processed_txs"],
              Rel("processed_txs")>>

\* HashSet::insert under the lock of the dedup set.
Insert == <<Acq("processed_txs"), [k |-> "insert", on |-> "processed_txs"],
            Rel("processed_txs")>>

\* The watermark cell l read, compared and written under its lock.
Mark(l) == <<Acq(l), [k |-> "mark", on |-> l], Rel(l)>>

\* main.rs 246-298 with the guard of the membership test bound for the rest
\* of the loop body.
Erc20PathsGuardHeld ==
    {<<Await("stream.next")>>,
     <<Await("stream.next"), Acq("processed_txs"),
       [k |-> "test", on |-> "processed_txs"], Rel("processed_txs")>>,
     <<Await("stream.next"), Acq("processed_txs"),
       [k |-> "test", on |-> "processed_txs"],
       Await("publish_event_to_redis"), [k |-> "insert", on |-> "processed_txs"],
       Rel("processed_txs")>>}

\* main.rs 246-298: one log of track_erc20_transfers: not matching;
\* a duplicate; emitted with its block fetched; emitted without a block
\* number.
Erc20Paths ==
    {<<Await("stream.next")>>,
     <<Await("stream.next")>> \o Contains,
     <<Await("stream.next")>> \o Contains
        \o <<Await("get_block"), Await("publish_event_to_redis")>> \o Insert
        \o Mark("last_eth_block"),
     <<Await("stream.next")>> \o Contains
        \o <<Await("publish_event_to_redis")>> \o Insert}

\* main.rs 313-369: one block of track_native_transfers: not fetched; no
\* transaction matching; a duplicate; an event emitted.
NativePaths ==
    {<<Await("stream.next"), Await("get_block_with_txs")>>,
     <<Await("stream.next"), Await("get_block_with_txs")>> \o Mark("last_eth_block"),
     <<Await("stream.next"), Await("get_block_with_txs")>> \o Contains
        \o Mark("last_eth_block"),
     <<Await("stream.next"), Await("get_block_with_txs")>> \o Contains
        \o <<Await("publish_event_to_redis")>> \o Insert \o Mark("last_eth_block")}

\* main.rs 401-465, 478-556: one iteration of poll_eth_blocks: the query
\* fails; a block with a transaction and a log, their ids new or not.
PollPaths ==
    {<<Await("get_block_number"), Await("sleep")>>,
     <<Await("get_block_number")>> \o Mark("last_eth_block")
        \o <<Await("get_block_with_txs")>> \o Insert
        \o <<Await("publish_event_to_redis"), Await("get_transaction_receipt")>> \o Insert
        \o <<Await("publish_event_to_redis")>> \o Mark("last_eth_block")
        \o <<Await("sleep")>>,
     <<Await("get_block_number")>> \o Mark("last_eth_block")
        \o <<Await("get_block_with_txs")>> \o Insert
        \o <<Await("get_transaction_receipt")>> \o Insert
        \o Mark("last_eth_block") \o <<Await("sleep")>>}

\* main.rs 592-636, 652-709: one cycle of a Solana poll task with one
\* signature: the list not fetched; a duplicate; fetched without an event;
\* an event emitted.
SolPaths ==
    {<<Await("get_signatures_for_address"), Await("sleep")>>,
     <<Await("get_signatures_for_address")>> \o Contains \o <<Await("sleep")>>,
     <<Await("get_signatures_for_address")>> \o Contains
        \o <<Await("get_transaction_with_config")>> \o Mark("last_sol_slot")
        \o <<Await("sleep")>>,
     <<Await("get_signatures_for_address")>> \o Contains
        \o <<Await("get_transaction_with_config"), Await("publish_event_to_redis")>>
        \o Insert \o Mark("last_sol_slot") \o <<Await("sleep")>>}

TaskPaths(t) ==
    CASE t = "native" -> NativePaths
      [] t = "erc20" -> Erc20Paths
      [] t = "poll" -> PollPaths
      [] OTHER -> SolPaths

\* The tasks that run side by side (main.rs 131-208, 720-747): the two
\* sub-trackers or the native tracker alone or the poller, with the Solana
\* poll tasks.
TaskSets ==
    {{"native", "erc20", "sol1"}, {"poll", "sol1"}, {"sol1", "sol2"}, {"native"}, {"poll"}}

\* The operation task t stands before, NoneV at the end of its path.
NextOp(t) ==
    IF f_out.pos[t] > Len(f_out.path[t]) THEN NoneV
    ELSE Some(f_out.path[t][f_out.pos[t]])

Advance(t) == [f_out.pos EXCEPT ![t] = @ + 1]

\* What no step of the lock-grain tasks touches.
LockFrame ==
    UNCHANGED <<f_in, retryVars, cfg, processed_txs, last_eth_block, last_sol_slot,
                histVars, streamVars, pollVars, solVars, pubVars, supVars>>

\* The loop of task t takes its next iteration.
LockBegin(t) ==
    /\ NextOp(t) = NoneV
    /\ \E p \in TaskPaths(t) :
          f_out' = [f_out EXCEPT !.path[t] = p, !.pos[t] = 1]
    /\ LockFrame

\* Mutex::lock().await returns the guard: the mutex was free.
LockAcquire(t) ==
    /\ NextOp(t) # NoneV
    /\ NextOp(t)[1].k = "acq"
    /\ f_out.owner[NextOp(t)[1].on] = "none"
    /\ f_out' = [f_out EXCEPT !.owner[NextOp(t)[1].on] = t, !.pos = Advance(t)]
    /\ LockFrame

\* An access to the value a mutex guards.
LockAccess(t) ==
    /\ NextOp(t) # NoneV
    /\ NextOp(t)[1].k \in {"test", "insert", "mark"}
    /\ f_out' = [f_out EXCEPT !.ops[t] = @ + 1, !.pos = Advance(t)]
    /\ LockFrame

\* The guard is dropped.
LockRelease(t) ==
    /\ NextOp(t) # NoneV
    /\ NextOp(t)[1].k = "rel"
    /\ f_out' = [f_out EXCEPT !.owner[NextOp(t)[1].on] = "none", !.ops[t] = 0,
                              !.pos = Advance(t)]
    /\ LockFrame

\* An awaited call, or a blocking one, returns.
LockAwait(t) ==
    /\ NextOp(t) # NoneV
    /\ NextOp(t)[1].k = "await"
    /\ f_out' = [f_out EXCEPT !.pos = Advance(t)]
    /\ LockFrame

(***************************************************************************)
(* Startup: Config::from_env (config.rs 20-114) and main up to the spawn   *)
(* of the two tasks (main.rs 104-226), run on a process environment and a  *)
(* .env file drawn at Init.  An environment maps a key to None or to       *)
(* Some(string).                                                           *)
(***************************************************************************)
RequiredKeys == {"ETH_RPC_URL", "SOL_RPC_URL", "REDIS_URL", "ETH_NETWORK", "SOL_NETWORK"}

ListKeys == {"WATCHED_ADDRESSES_ETH", "WATCHED_ADDRESSES_SOL"}

PollKey == "POLL_INTERVAL_SECS"

EnvKeys == RequiredKeys \cup ListKeys \cup {PollKey}

\* config.rs 96: the interval when POLL_INTERVAL_SECS is absent.
DefaultPollInterval == 10

\* The values POLL_INTERVAL_SECS is given: numerals of a u64, strings that
\* are not numbers, and numbers that are not a u64.
PollValues == {"0", "7", "42", "+7", "not-a-number", "", "1.5", "-5", "18446744073709551616"}

\* str::parse::<u64> (config.rs 88, 94) with a default taken when the
\* string does not parse.
ParseU64OrDefault(s) ==
    CASE s = "0" -> Some(0)
      [] s = "7" -> Some(7)
      [] s = "42" -> Some(42)
      [] s = "+7" -> Some(7)
      [] OTHER -> Some(DefaultPollInterval)

\* str::parse::<u64> (config.rs 88, 94) on the strings of PollValues:
\* decimal digits after an optional '+', the value below 2^64.
ParseU64(s) ==
    CASE s = "0" -> Some(0)
      [] s = "7" -> Some(7)
      [] s = "42" -> Some(42)
      [] s = "+7" -> Some(7)
      [] OTHER -> NoneV

\* config.rs 40-44: an empty string is an empty list; otherwise the string
\* is split at the commas and every piece trimmed.
SplitList(s) ==
    CASE s = "" -> <<>>
      [] s = "0xw, 0xx" -> <<"0xw", "0xx">>
      [] s = "A,B" -> <<"A", "B">>
      [] OTHER -> <<s>>

\* dotenv().ok(): the keys of the file are added to the environment, a key
\* that is already set keeping its value.
LoadDotenv(env, file) == [k \in EnvKeys |-> IF env[k] # NoneV THEN env[k] ELSE file[k]]

\* config.rs 24-31, get_required, and 38-58, 86-99, the optional keys: the
\* variable is read; when it is not set the file is loaded and the variable
\* read again.  `env` is the environment afterwards.
GetVar(env, file, k) ==
    IF env[k] # NoneV THEN [env |-> env, val |-> env[k]]
    ELSE [env |-> LoadDotenv(env, file), val |-> LoadDotenv(env, file)[k]]

ConfigErr(msg) == [ok |-> FALSE, err |-> msg, cfg |-> NoneV]

ConfigOk(c) == [ok |-> TRUE, err |-> "", cfg |-> Some(c)]

\* config.rs 38-58, 60-80: a watched list.
WatchedList(val) == IF val = NoneV THEN <<>> ELSE SplitList(val[1])

\* config.rs 20-114: Config::from_env.
FromEnv(env0, file) ==
    LET g1 == GetVar(env0, file, "ETH_RPC_URL")
        g2 == GetVar(g1.env, file, "SOL_RPC_URL")
        g3 == GetVar(g2.env, file, "REDIS_URL")
        w1 == GetVar(g3.env, file, "WATCHED_ADDRESSES_ETH")
        w2 == GetVar(w1.env, file, "WATCHED_ADDRESSES_SOL")
        g4 == GetVar(w2.env, file, "ETH_NETWORK")
        g5 == GetVar(g4.env, file, "SOL_NETWORK")
        pl == GetVar(g5.env, file, PollKey)
    IN IF g1.val = NoneV THEN ConfigErr("ETH_RPC_URL must be set")
       ELSE IF g2.val = NoneV THEN ConfigErr("SOL_RPC_URL must be set")
       ELSE IF g3.val = NoneV THEN ConfigErr("REDIS_URL must be set")
       ELSE IF g4.val = NoneV THEN ConfigErr("ETH_NETWORK must be set")
       ELSE IF g5.val = NoneV THEN ConfigErr("SOL_NETWORK must be set")
       ELSE IF pl.val # NoneV /\ ParseU64(pl.val[1]) = NoneV
              THEN ConfigErr("POLL_INTERVAL_SECS must be a number")
       ELSE ConfigOk([eth_rpc_url |-> g1.val[1],
                      sol_rpc_url |-> g2.val[1],
                      redis_url |-> g3.val[1],
                      watched_addresses_eth |-> WatchedList(w1.val),
                      watched_addresses_sol |-> WatchedList(w2.val),
                      eth_network |-> g4.val[1],
                      sol_network |-> g5.val[1],
                      poll_interval_secs |-> IF pl.val = NoneV THEN DefaultPollInterval
                                             ELSE ParseU64(pl.val[1])[1]])

\* The process environments: every required key set or not, the watched
\* lists not set, POLL_INTERVAL_SECS not set or set to one of PollValues.
ProcessEnvs ==
    {[k \in EnvKeys |->
         IF k \in RequiredKeys THEN (IF k \in present THEN Some("env") ELSE NoneV)
         ELSE IF k = PollKey THEN poll
         ELSE NoneV] :
       present \in SUBSET RequiredKeys,
       poll \in {NoneV} \cup {Some(s) : s \in PollValues}}

\* The .env files: none; one that sets every key; one that sets only
\* POLL_INTERVAL_SECS, to a string that is not a number.
DotenvFiles ==
    {[k \in EnvKeys |-> NoneV],
     [k \in EnvKeys |->
         IF k \in RequiredKeys THEN Some("file")
         ELSE IF k = PollKey THEN Some("7")
         ELSE IF k = "WATCHED_ADDRESSES_ETH" THEN Some("0xw, 0xx")
         ELSE Some("A,B")],
     [k \in EnvKeys |-> IF k = PollKey THEN Some("not-a-number") ELSE NoneV]}

\* main.rs 109-116: the configuration is loaded; an Err is logged and the
\* process exits with code 1.
ConfigLoad ==
    /\ main_pc = "start"
    /\ f_out' = FromEnv(f_in.env, f_in.file)
    /\ main_pc' = IF f_out'.ok THEN "configured" ELSE "exit1"
    /\ UNCHANGED <<f_in, retryVars, cfg, processed_txs, last_eth_block, last_sol_slot,
                   histVars, streamVars, pollVars, solVars, pubVars, sol_main>>

\* main.rs 118: redis::Client::open; an Err is returned from main by `?`.
MainOpenClient ==
    /\ main_pc = "configured"
    /\ \E ok \in BOOLEAN : main_pc' = IF ok THEN "client" ELSE "failed"
    /\ UNCHANGED <<fnVars, retryVars, cfg, processed_txs, last_eth_block, last_sol_slot,
                   histVars, streamVars, pollVars, solVars, pubVars, sol_main>>

\* main.rs 120-228: the shared state is created, the two tasks are spawned
\* and main awaits their join.
MainSpawn ==
    /\ main_pc = "client"
    /\ main_pc' = "joining"
    /\ sess' = "spawned"
    /\ sol_main' = "spawned"
    /\ UNCHANGED <<fnVars, retryVars, cfg, processed_txs, last_eth_block, last_sol_slot,
                   histVars, sessions, n_pc, n_block, n_i, e_pc, e_log, pollVars,
                   solVars, pubVars>>

(***************************************************************************)
(* Configurations and the specifications.  eth_mode is "ws" (streaming),   *)
(* "http" (polling) or "none" (Provider::try_from rejected the URL and     *)
(* poll_eth_blocks returned, main.rs 393-398); sol_mode is "ws" or "http"  *)
(* (main.rs 726).  The initial state is the one in which main awaits       *)
(* try_join! and every task stands at its first await, or has ended        *)
(* before reaching one.  The ws mode of the Solana ingestor appears with   *)
(* an unparseable entry only: with parseable entries each of its poll      *)
(* loops is that of the http mode (main.rs 583-639, 782-835), and how many *)
(* of them it spawns is the matter of SpecSpawn.                           *)
(* Two configurations run an EVM ingestor and a Solana poll task side by   *)
(* side.                                                                   *)
(***************************************************************************)
\* The Solana addresses a configuration may watch, in list order.
SolAddresses == <<"A", "B", "C", "D">>

Configs ==
    {[eth_mode |-> m, watched_eth |-> we, sol_mode |-> "http", watched_sol |-> <<>>] :
        m \in {"ws", "http"},
        we \in {<<>>, <<"0xw">>, <<"0xw", Unparseable>>, <<Unparseable>>}}
    \cup
    {[eth_mode |-> "none", watched_eth |-> <<"0xw">>, sol_mode |-> "http",
      watched_sol |-> SubSeq(SolAddresses, 1, k)] : k \in SolTaskIds}
    \cup
    {[eth_mode |-> "none", watched_eth |-> <<"0xw">>, sol_mode |-> m,
      watched_sol |-> <<"A", Unparseable>>] : m \in {"ws", "http"}}
    \cup
    {[eth_mode |-> "none", watched_eth |-> <<"0xw">>, sol_mode |-> "http",
      watched_sol |-> <<>>]}
    \cup
    {[eth_mode |-> "ws", watched_eth |-> <<>>, sol_mode |-> "http",
      watched_sol |-> <<"A">>],
     [eth_mode |-> "http", watched_eth |-> <<"0xw">>, sol_mode |-> "http",
      watched_sol |-> <<"A">>]}

\* main.rs 720-747, 775-782 without the return on an empty list.
SolMainStartNoReturn(c) ==
    IF c.sol_mode = "http" THEN "keepalive"
    ELSE IF AllPubkeysParse(c.watched_sol) THEN "subscribed"
    ELSE "panicked"

\* main.rs 720-747, 775-782: track_solana_transfers up to its first await.
\* It returns on an empty list; in http mode it spawns the poll tasks of the
\* entries that parse and stays in its keep-alive loop; in ws mode an entry
\* that does not parse panics it.
SolMainStart(c) ==
    IF c.watched_sol = <<>> THEN "returned"
    ELSE IF c.sol_mode = "http" THEN "keepalive"
    ELSE IF AllPubkeysParse(c.watched_sol) THEN "subscribed"
    ELSE "panicked"

PipeStart(c) ==
    /\ cfg = c
    /\ processed_txs = {}
    /\ last_eth_block = NoneV
    /\ last_sol_slot = NoneV
    /\ handed = EmptyBag
    /\ inflight = EmptyBag
    /\ sess = CASE c.eth_mode = "ws" -> "connecting"
                [] c.eth_mode = "http" -> "polling"
                [] OTHER -> "returned"
    /\ sessions = 0
    /\ n_pc = "off"
    /\ n_block = 0
    /\ n_i = 1
    /\ e_pc = "off"
    /\ e_log = NoLog
    /\ p_pc = IF c.eth_mode = "http" THEN "num" ELSE "off"
    /\ p_current = 0
    /\ p_block = 0
    /\ p_ti = 1
    /\ p_li = 1
    /\ s_pc = [p \in SolTaskIds |->
                  IF SolMainStart(c) = "keepalive" /\ p <= Len(ParsedPubkeys(c.watched_sol))
                    THEN "poll" ELSE "off"]
    /\ s_sigs = [p \in SolTaskIds |-> <<>>]
    /\ s_i = [p \in SolTaskIds |-> 1]
    /\ b_log = <<>>
    /\ main_pc = "joining"
    /\ sol_main = SolMainStart(c)

\* No function of the event model is run alone.
FnIdle ==
    /\ f_in = <<>>
    /\ f_out = <<>>

\* The pipeline at rest, in the specifications that run one function alone.
PipeIdle ==
    PipeStart([eth_mode |-> "none", watched_eth |-> <<>>, sol_mode |-> "http",
               watched_sol |-> <<>>])

\* The retry engine at rest, in the specification of the ingestors.
RetryIdle ==
    /\ r_attempts = 0
    /\ r_base = 1
    /\ r_factor = [num |-> 1, den |-> 1]
    /\ r_pc = "idle"
    /\ r_delays = <<>>
    /\ r_hist = <<>>
    /\ r_sleeps = <<>>
    /\ r_last_err = NoResult
    /\ r_result = NoResult

RetryInit ==
    /\ RetryStartState
    /\ PipeIdle
    /\ FnIdle

RetryNext == RetryStep

SpecRetry == RetryInit /\ [][RetryNext]_vars

SpecRetryFair == SpecRetry /\ WF_vars(RetryNext)

\* backoff_durations alone, on arguments drawn at Init.
BackoffInit ==
    /\ r_attempts \in 0..MaxAttempts
    /\ r_base \in BackoffBases
    /\ r_factor \in Factors
    /\ r_pc = "call"
    /\ r_delays = <<>>
    /\ r_hist = <<>>
    /\ r_sleeps = <<>>
    /\ r_last_err = NoResult
    /\ r_result = NoResult
    /\ PipeIdle
    /\ FnIdle

BackoffNext == BackoffCall

\* publish_event_to_redis alone: main.rs 31-35, the call of retry_with_backoff.
PublishInit ==
    /\ r_attempts = PublishAttempts
    /\ r_base = PublishBaseMs
    /\ r_factor = PublishFactor
    /\ r_pc = "start"
    /\ r_delays = <<>>
    /\ r_hist = <<>>
    /\ r_sleeps = <<>>
    /\ r_last_err = NoResult
    /\ r_result = NoResult
    /\ PipeIdle
    /\ FnIdle

PublishNext ==
    \/ RetryStart
    \/ PublishAttempt
    \/ RetrySleep
    \/ RetryExhausted

SpecPublish == PublishInit /\ [][PublishNext]_vars

\* Every await of the publisher completes: a connection request, a publish
\* and a sleep each return.
SpecPublishFair == SpecPublish /\ WF_vars(PublishNext)

SpecBackoff == BackoffInit /\ [][BackoffNext]_vars

\* The event-id construction alone, on two records drawn at Init.
IdsInit ==
    /\ RetryIdle
    /\ PipeIdle
    /\ f_in \in ChainRecords \X ChainRecords
    /\ f_out = <<>>

IdsNext == IdCall

SpecIds == IdsInit /\ [][IdsNext]_vars

\* The decoding alone, on the log that tests.rs 198-238 builds from two
\* addresses and an amount drawn at Init.
DecodeInit ==
    /\ RetryIdle
    /\ PipeIdle
    /\ \E a \in TestAddresses, b \in TestAddresses, v \in TestAmounts :
          f_in = [from |-> a, to |-> b, amount |-> v,
                  log |-> [topics |-> <<[i \in 1..32 |-> 0], PadTopic(a), PadTopic(b)>>,
                           data |-> BigEndian32(v)]]
    /\ f_out = <<>>

DecodeNext == DecodeCall

SpecDecode == DecodeInit /\ [][DecodeNext]_vars

\* The configurations of the EVM poller alone: an http URL and no Solana
\* address (main.rs 196-208, 720-723).
PollConfigs == {c \in Configs : c.eth_mode = "http" /\ c.watched_sol = <<>>}

PollInit == RetryIdle /\ FnIdle /\ \E c \in PollConfigs : PipeStart(c)

PollNext == PollStep

SpecPoll == PollInit /\ [][PollNext]_vars

\* Every await of the poller completes: an RPC request returns a result or
\* an error, a publish returns, a sleep ends.
SpecPollFair == SpecPoll /\ WF_vars(PollNext)

\* The EVM ingestor in streaming mode alone: the configurations with a
\* "ws" URL and no Solana address.
StreamConfigs == {c \in Configs : c.eth_mode = "ws" /\ c.watched_sol = <<>>}

StreamInit == RetryIdle /\ FnIdle /\ \E c \in StreamConfigs : PipeStart(c)

StreamNext == StreamStep

SpecStream == StreamInit /\ [][StreamNext]_vars

\* The runtime keeps polling the session task: a step that can be taken is
\* taken, and an insert that stays possible happens.
SpecStreamFair ==
    /\ SpecStream
    /\ WF_vars(StreamNext)
    /\ WF_vars(NativeInsert)
    /\ WF_vars(Erc20Insert)

\* The Solana ingestor alone, under the join of main: the configurations
\* without an EVM ingestor.
SolConfigs == {c \in Configs : c.eth_mode = "none"}

SolInit == RetryIdle /\ FnIdle /\ \E c \in SolConfigs : PipeStart(c)

SolNext ==
    \/ SolStep
    \/ MainStep

SpecSol == SolInit /\ [][SolNext]_vars

\* One polling iteration alone, on a watermark and a block number drawn at
\* Init.
RangeInit ==
    /\ RetryIdle
    /\ PipeIdle
    /\ \E l \in {NoneV} \cup {Some(n) : n \in RangeValues}, c \in RangeValues :
          f_in = [last |-> l, current |-> c]
    /\ f_out = <<>>

RangeNext == RangeCall

SpecRange == RangeInit /\ [][RangeNext]_vars

\* The tasks of one of TaskSets before their first iteration, every mutex
\* free.
LocksInit ==
    /\ RetryIdle
    /\ PipeIdle
    /\ f_in \in TaskSets
    /\ f_out = [path |-> [t \in f_in |-> <<>>],
                pos |-> [t \in f_in |-> 1],
                owner |-> [l \in Locks |-> "none"],
                ops |-> [t \in f_in |-> 0]]

LocksNext ==
    \/ \E t \in f_in : LockBegin(t)
    \/ \E t \in f_in : LockAcquire(t)
    \/ \E t \in f_in : LockAccess(t)
    \/ \E t \in f_in : LockRelease(t)
    \/ \E t \in f_in : LockAwait(t)

SpecLocks == LocksInit /\ [][LocksNext]_vars

\* main before Config::from_env: no task is spawned, nothing is shared yet.
ConfigInit ==
    /\ RetryIdle
    /\ cfg = [eth_mode |-> "none", watched_eth |-> <<>>, sol_mode |-> "http",
              watched_sol |-> <<>>]
    /\ processed_txs = {}
    /\ last_eth_block = NoneV
    /\ last_sol_slot = NoneV
    /\ handed = EmptyBag
    /\ inflight = EmptyBag
    /\ sess = "unspawned"
    /\ sessions = 0
    /\ n_pc = "off"
    /\ n_block = 0
    /\ n_i = 1
    /\ e_pc = "off"
    /\ e_log = NoLog
    /\ p_pc = "off"
    /\ p_current = 0
    /\ p_block = 0
    /\ p_ti = 1
    /\ p_li = 1
    /\ s_pc = [p \in SolTaskIds |-> "off"]
    /\ s_sigs = [p \in SolTaskIds |-> <<>>]
    /\ s_i = [p \in SolTaskIds |-> 1]
    /\ b_log = <<>>
    /\ main_pc = "start"
    /\ sol_main = "unspawned"
    /\ \E e \in ProcessEnvs, d \in DotenvFiles : f_in = [env |-> e, file |-> d]
    /\ f_out = <<>>

ConfigNext ==
    \/ ConfigLoad
    \/ MainOpenClient
    \/ MainSpawn

SpecConfig == ConfigInit /\ [][ConfigNext]_vars

Init == RetryIdle /\ FnIdle /\ \E c \in Configs : PipeStart(c)

Next ==
    \/ StreamStep
    \/ PollStep
    \/ SolStep
    \/ MainStep

Spec == Init /\ [][Next]_vars

(***************************************************************************)
(* Properties of the ingestors (Spec).                                     *)
(***************************************************************************)

\* C1: for every event_id and every interleaving of the ingestor tasks, at
\* most one event carrying that id is ever handed to the publisher.
C1_AtMostOnePerId ==
    \A id \in {h.ev.event_id : h \in BagToSet(handed)} :
        CountIn(handed, LAMBDA h : h.ev.event_id = id) <= 1

\* C2: any two events handed to the publisher with the same event_id have
\* identical payloads; in particular a native event and an ERC-20 event
\* never both carry eth:<tx_hash>.
C2_SameIdSamePayload ==
    \A h1, h2 \in BagToSet(handed) :
        h1.ev.event_id = h2.ev.event_id => h1.ev = h2.ev

\* The erc20_transfer events handed for the log l.
Erc20EventsOf(bag, l) ==
    CountIn(bag, LAMBDA h : h.src = l /\ h.ev.event_type = "erc20_transfer")

\* C3: once an ingestor has handled a three-topic Transfer log whose from or
\* to is watched, exactly one erc20_transfer event has been emitted for that
\* log, also when the transaction carries several such logs or is itself a
\* watched native transfer.
C3_OneEventPerLog ==
    [][ /\ (/\ e_pc = "log"
            /\ e_pc' \in {"publish", "next"}
            /\ Erc20Matches(EthLogs[e_log]))
           => Erc20EventsOf(handed', e_log) = 1
        /\ (/\ p_pc = "log"
            /\ pollVars' # pollVars
            /\ Watched(AddressFromTopic(PollLogInHand.topics[2]))
               \/ Watched(AddressFromTopic(PollLogInHand.topics[3]))
            /\ PollLogMatches(PollLogInHand))
           => Erc20EventsOf(handed', PollTxInHand.logs[p_li]) = 1 ]_vars

\* The solana_tx events handed for the signature sig.
SolEventsOf(bag, sig) ==
    CountIn(bag, LAMBDA h : h.ev.tx_hash = sig /\ h.ev.event_type = "solana_tx")

\* C4: once a poll task has fetched a listed transaction whose static
\* account keys contain its watched pubkey, exactly one solana_tx event has
\* been emitted for that transaction, also when several poll tasks see it.
C4_OneEventPerSignature ==
    [][ \A p \in SolTaskIds :
            (/\ s_pc[p] = "fetch"
             /\ s_pc'[p] \in {"publish", "wm"}
             /\ SolAddr(p) \in SolLedger[SolSig(p)].keys)
            => SolEventsOf(handed', SolSig(p)) = 1 ]_vars

\* C5: a watermark never decreases, except last_eth_block in the step of
\* the EVM poller that reads a current block number below it.
C5_WatermarksMonotone ==
    [][ /\ last_sol_slot # NoneV =>
              /\ last_sol_slot' # NoneV
              /\ last_sol_slot'[1] >= last_sol_slot[1]
        /\ last_eth_block # NoneV =>
              /\ last_eth_block' # NoneV
              /\ \/ last_eth_block'[1] >= last_eth_block[1]
                 \/ /\ p_pc = "num"
                    /\ p_pc' # "num"
                    /\ p_current' < last_eth_block[1] ]_vars

\* The poller starts the range at block 1 with the watermark rewound to 0,
\* after an earlier iteration that emitted events (and so left it above 0).
C5_Witness ==
    /\ p_pc = "block"
    /\ p_block = 1
    /\ last_eth_block = Some(0)
    /\ handed # EmptyBag

\* C6: a record in hand that matches the watched list and whose id is not
\* in the dedup set is emitted by the step that handles it, whatever the
\* watermark: a streamed log, a transaction of a streamed block, a
\* transaction and a receipt log of a polled block, a Solana transaction.
C6_WatermarkNeverGates ==
    [][ /\ (/\ e_pc = "log"
            /\ e_pc' \notin {"log", "off"}
            /\ Erc20Matches(EthLogs[e_log])
            /\ EthEventId(EthLogs[e_log].transaction_hash) \notin processed_txs)
           => (e_pc' = "publish" /\ handed' # handed)
        /\ (/\ n_pc = "txs"
            /\ n_pc' # "off"
            /\ <<n_pc, n_i>>' # <<n_pc, n_i>>
            /\ NativeMatches(NativeTxInHand)
            /\ EthEventId(NativeTxInHand.hash) \notin processed_txs)
           => (n_pc' = "publish" /\ handed' # handed)
        /\ (/\ p_pc = "tx"
            /\ pollVars' # pollVars
            /\ PollNativeMatches(PollTxInHand)
            /\ EthEventId(PollTxInHand.hash) \notin processed_txs)
           => (p_pc' = "pub_tx" /\ handed' # handed)
        /\ (/\ p_pc = "log"
            /\ pollVars' # pollVars
            /\ PollLogMatches(PollLogInHand)
            /\ EthLogEventId(PollTxInHand.hash, PollLogInHand.log_index)
                  \notin processed_txs)
           => (p_pc' = "pub_log" /\ handed' # handed)
        /\ \A p \in SolTaskIds :
              /\ (/\ s_pc[p] = "tx"
                  /\ <<s_pc[p], s_i[p]>>' # <<s_pc[p], s_i[p]>>
                  /\ SolEventId(SolSig(p)) \notin processed_txs)
                 => s_pc'[p] = "fetch"
              /\ (/\ s_pc[p] = "fetch"
                  /\ s_pc'[p] = "wm")
                 => ~SolMatches(p, SolSig(p)) ]_vars

\* The only Solana poll task, and so the only writer of the slot watermark,
\* is publishing the event of a transaction whose slot is below it.
C6_Witness ==
    /\ Len(cfg.watched_sol) = 1
    /\ s_pc[1] = "publish"
    /\ last_sol_slot # NoneV
    /\ SolLedger[SolSig(1)].slot < last_sol_slot[1]

\* The ingestor tasks.
Tasks == {"native", "erc20", "poll"} \cup {SolTaskName(p) : p \in SolTaskIds}

\* Where the EVM poller stands in its iteration: block, transaction, then
\* the native event before the receipt and its logs in order.
PollCursor ==
    CASE p_pc = "block" -> <<p_block, 0, 0, 0>>
      [] p_pc = "tx" -> <<p_block, p_ti, 0, 0>>
      [] p_pc = "pub_tx" -> <<p_block, p_ti, 1, 0>>
      [] p_pc = "receipt" -> <<p_block, p_ti, 2, 0>>
      [] p_pc = "log" -> <<p_block, p_ti, 3, 2 * p_li>>
      [] p_pc = "pub_log" -> <<p_block, p_ti, 3, 2 * p_li + 1>>
      [] OTHER -> <<0, 0, 0, 0>>

\* The lexicographic order of cursors.
CursorBefore(a, b) ==
    \E i \in 1..4 : a[i] < b[i] /\ \A j \in 1..(i - 1) : a[j] = b[j]

PollInIteration(pc) == pc \in {"block", "tx", "pub_tx", "receipt", "log", "pub_log"}

\* C7, as stated: within one per-chain ingestor the publish of one event
\* completes before the publish of the next starts.
C7_OnePublishPerIngestor ==
    /\ CountIn(inflight, LAMBDA c : c.by \in {"native", "erc20", "poll"}) <= 1
    /\ CountIn(inflight, LAMBDA c : c.by \in {SolTaskName(p) : p \in SolTaskIds}) <= 1

\* C7, amended: within one task (the EVM poller, the native tracker, the
\* ERC-20 tracker, one Solana poll task) the publish of one event returns
\* before the publish of the next starts, and the poller walks an iteration
\* by ascending block number, then transaction order, then the native
\* event before the logs of the receipt in their order.
C7_OnePublishPerTask ==
    [][ /\ \A t \in Tasks : CountIn(inflight', LAMBDA c : c.by = t) <= 1
        /\ (/\ PollInIteration(p_pc)
            /\ PollInIteration(p_pc')
            /\ pollVars' # pollVars)
           => CursorBefore(PollCursor, PollCursor') ]_vars

\* The poller has published the native event of 0xa1 and the event of its
\* first log, and is publishing the event of its second log, alone in flight.
C7_Witness ==
    /\ p_pc = "pub_log"
    /\ PollTxInHand.hash = "0xa1"
    /\ p_li = 2
    /\ CountIn(handed, LAMBDA h : h.by = "poll" /\ h.src \in {"0xa1", "L1", "L2"}) = 3
    /\ inflight = Call(EthLogEventId("0xa1", Some(1)), "poll")

(***************************************************************************)
(* Properties of the retry engine (SpecRetry, SpecRetryFair).              *)
(***************************************************************************)

\* C8, as stated: with 1 <= K <= N, a success on attempt K is returned after
\* exactly K invocations and K-1 sleeps; no sleep precedes attempt 1, the
\* sleep before attempt k+1 is exactly B*F^(k-1), and nothing is invoked or
\* slept after the success.
C8_ExactDelays ==
    r_attempts >= 1 =>
        /\ \A k \in 1..Len(r_hist) :
              r_hist[k] => /\ k = Len(r_hist)
                           /\ r_pc = "done"
                           /\ r_result = Ok(k)
                           /\ Len(r_sleeps) = k - 1
        /\ (r_pc = "done" /\ ~r_result.ok) => Len(r_hist) >= r_attempts
        /\ IF r_hist = <<>> THEN r_sleeps = <<>>
           ELSE Len(r_sleeps) \in {Len(r_hist) - 1, Len(r_hist)}
        /\ \A k \in 1..Len(r_sleeps) :
              r_sleeps[k] * Pow(r_factor.den, k - 1) = r_base * Pow(r_factor.num, k - 1)

\* C8, amended: the same, with the sleep before attempt k+1 being B*F^(k-1)
\* rounded to whole milliseconds (half away from zero).
C8_RoundedDelays ==
    r_attempts >= 1 =>
        /\ \A k \in 1..Len(r_hist) :
              r_hist[k] => /\ k = Len(r_hist)
                           /\ r_pc = "done"
                           /\ r_result = Ok(k)
                           /\ Len(r_sleeps) = k - 1
        /\ (r_pc = "done" /\ ~r_result.ok) => Len(r_hist) >= r_attempts
        /\ IF r_hist = <<>> THEN r_sleeps = <<>>
           ELSE Len(r_sleeps) \in {Len(r_hist) - 1, Len(r_hist)}
        /\ \A k \in 1..Len(r_sleeps) :
              r_sleeps[k] = RoundDiv(r_base * Pow(r_factor.num, k - 1),
                                     Pow(r_factor.den, k - 1))

\* N = 4, B = 3 ms, F = 1.5: two failures, then the success of attempt 3,
\* after sleeps of 3 ms and 5 ms (4.5 rounded).
C8_Witness ==
    /\ r_pc = "done"
    /\ r_attempts = 4
    /\ r_base = 3
    /\ r_factor = [num |-> 3, den |-> 2]
    /\ r_hist = <<FALSE, FALSE, TRUE>>
    /\ r_result = Ok(3)
    /\ r_sleeps = <<3, 5>>

\* C9: with N >= 1 and every attempt failing, the operation is invoked
\* exactly N times with exactly N-1 sleeps, none after the last failure; the
\* call terminates and returns the error of the N-th invocation.
C9_AllFail ==
    /\ [](r_attempts >= 1 /\ (\A k \in 1..Len(r_hist) : ~r_hist[k]) =>
             /\ Len(r_hist) <= r_attempts
             /\ Len(r_sleeps) <= r_attempts - 1
             /\ r_pc = "done" => /\ Len(r_hist) = r_attempts
                                 /\ Len(r_sleeps) = r_attempts - 1
                                 /\ r_result = Err(r_attempts))
    /\ <>(r_pc = "done")

\* N = 3, all three attempts fail: the error returned is the third one.
C9_Witness ==
    /\ r_pc = "done"
    /\ r_attempts = 3
    /\ r_hist = <<FALSE, FALSE, FALSE>>
    /\ Len(r_sleeps) = 2
    /\ r_result = Err(3)

C11_BackoffDurations ==
    r_pc = "returned" =>
        /\ Len(r_delays) = r_attempts
        /\ \A i \in 0..(r_attempts - 1) :
              LET d == r_delays[i + 1]
                  n == r_base * Pow(r_factor.num, i)
                  m == Pow(r_factor.den, i)
              IN /\ 2 * d * m - m <= 2 * n
                 /\ 2 * n < 2 * d * m + m
        /\ r_attempts >= 1 => r_delays[1] = r_base
        /\ r_factor = [num |-> 2, den |-> 1] =>
              \A i \in 1..(r_attempts - 1) : r_delays[i + 1] = 2 * r_delays[i]
        /\ (r_attempts = 4 /\ r_base = 100 /\ r_factor = [num |-> 2, den |-> 1]) =>
              r_delays = <<100, 200, 400, 800>>

\* The call of test_backoff_durations_basic has returned its four delays.
C11_Witness ==
    /\ r_pc = "returned"
    /\ r_attempts = 4
    /\ r_base = 100
    /\ r_factor = [num |-> 2, den |-> 1]
    /\ r_delays = <<100, 200, 400, 800>>

(***************************************************************************)
(* Properties of publish_event_to_redis (SpecPublishFair).                 *)
(***************************************************************************)

\* C12: the publisher makes at most 8 attempts to enqueue one event on the
\* topic cross_chain_events; every attempt asks for a new broker connection
\* and publishes on the connection acquired in that attempt; it waits 500,
\* 1000, 2000, 4000, 8000, 16000, 32000 ms between consecutive attempts,
\* stops at the first success, and always returns: success, or failure
\* after the 8th failed attempt.
C12_PublisherAttempts ==
    /\ [](/\ Len(r_hist) <= 8
          /\ Len(b_log) = Len(r_hist)
          /\ \A k \in 1..Len(b_log) :
                /\ b_log[k].topic \in {<<>>, <<"cross_chain_events">>}
                /\ (b_log[k].topic = <<>>) = (b_log[k].conn = <<>>)
                /\ r_hist[k] => b_log[k].conn # <<>>
                /\ \A j \in 1..(k - 1) :
                      b_log[k].conn # <<>> => b_log[j].conn # b_log[k].conn
          /\ r_sleeps = SubSeq(<<500, 1000, 2000, 4000, 8000, 16000, 32000>>,
                               1, Len(r_sleeps))
          /\ IF r_hist = <<>> THEN r_sleeps = <<>>
             ELSE Len(r_sleeps) \in {Len(r_hist) - 1, Len(r_hist)}
          /\ \A k \in 1..Len(r_hist) :
                r_hist[k] => /\ k = Len(r_hist)
                             /\ r_pc = "done"
                             /\ r_result.ok
                             /\ Len(r_sleeps) = k - 1
          /\ (r_pc = "done" /\ ~r_result.ok) =>
                /\ Len(r_hist) = 8
                /\ Len(r_sleeps) = 7
                /\ \A k \in 1..8 : ~r_hist[k])
    /\ <>(r_pc = "done")

\* Eight failed attempts, the second, fifth and eighth on connections that
\* were acquired (1, 2 and 3), with all seven waits taken.
C12_Witness ==
    /\ r_pc = "done"
    /\ ~r_result.ok
    /\ Len(r_hist) = 8
    /\ r_sleeps = <<500, 1000, 2000, 4000, 8000, 16000, 32000>>
    /\ b_log[2].conn = <<1>>
    /\ b_log[5].conn = <<2>>
    /\ b_log[8].conn = <<3>>
    /\ \A k \in {1, 3, 4, 6, 7} : b_log[k].conn = <<>>

(***************************************************************************)
(* Publish failures and the ingestors (Spec).                              *)
(***************************************************************************)

\* C13: a failure of the publisher never terminates an ingestor: the task
\* that published leaves the call still running (a streaming sub-tracker
\* ends there only when its sibling's subscription failed or stream ended,
\* which tears the session down), the id of the event is in the dedup set
\* as after a success, and the task goes on to a later record.
C13_FailureKeepsIngestorRunning ==
    [][ /\ (n_pc = "publish" /\ n_pc' # "publish") =>
              \/ n_pc' \in {"insert", "failed"} /\ sess' = "running"
              \/ n_pc' = "off" /\ e_pc \in {"sub", "next"}
        /\ (n_pc = "failed" /\ n_pc' # "failed") =>
              \/ /\ EthEventId(NativeTxInHand.hash) \in processed_txs'
                 /\ n_pc' \in {"txs", "wm"}
                 /\ sess' = "running"
              \/ n_pc' = "off" /\ e_pc \in {"sub", "next"}
        /\ (e_pc = "publish" /\ e_pc' # "publish") =>
              \/ e_pc' \in {"insert", "failed"} /\ sess' = "running"
              \/ e_pc' = "off" /\ n_pc \in {"sub", "next"}
        /\ (e_pc = "failed" /\ e_pc' # "failed") =>
              \/ /\ EthEventId(EthLogs[e_log].transaction_hash) \in processed_txs'
                 /\ e_pc' \in {"wm", "next"}
                 /\ sess' = "running"
              \/ e_pc' = "off" /\ n_pc \in {"sub", "next"}
        /\ \A p \in SolTaskIds :
              /\ (s_pc[p] = "publish" /\ s_pc'[p] # "publish") =>
                    s_pc'[p] \in {"insert", "failed"}
              /\ (s_pc[p] = "failed" /\ s_pc'[p] # "failed") =>
                    /\ SolEventId(SolSig(p)) \in processed_txs'
                    /\ s_pc'[p] = "wm"
        /\ (p_pc = "pub_tx" /\ p_pc' # "pub_tx") =>
              /\ EthEventId(PollTxInHand.hash) \in processed_txs'
              /\ p_pc' \in {"receipt", "block", "end_skip"}
              /\ sess' = "polling"
        /\ (p_pc = "pub_log" /\ pollVars' # pollVars) =>
              /\ EthLogEventId(PollTxInHand.hash, PollLogInHand.log_index)
                    \in processed_txs'
              /\ p_pc' \in {"log", "tx", "block", "end", "end_skip"}
              /\ sess' = "polling" ]_vars

\* The publish of a native transfer's event has failed in a streaming
\* session whose ERC-20 tracker is working on a log: the native tracker
\* stands before its insert.
C13_Witness ==
    /\ sess = "running"
    /\ n_pc = "failed"
    /\ e_pc = "log"
    /\ EthEventId(NativeTxInHand.hash) \notin processed_txs

\* The ids of the events whose publish has returned Err to a task that now
\* stands between that return and the insert of the id.
FailedInHand ==
    (IF n_pc = "failed" THEN {EthEventId(NativeTxInHand.hash)} ELSE {})
    \cup (IF e_pc = "failed" THEN {EthEventId(EthLogs[e_log].transaction_hash)} ELSE {})
    \cup {SolEventId(SolSig(p)) : p \in {q \in SolTaskIds : s_pc[q] = "failed"}}

\* C14: once the publisher has returned failure for an event_id, no later
\* step of any ingestor hands an event with that id to the publisher again,
\* also when the same record is observed again.
C14_NoHandAfterFailure ==
    [][ \A id \in FailedInHand :
            CountIn(handed', LAMBDA h : h.ev.event_id = id)
                = CountIn(handed, LAMBDA h : h.ev.event_id = id) ]_vars

(***************************************************************************)
(* Properties of the supervisor and of startup (Spec).                     *)
(***************************************************************************)

\* A top-level ingestor task has terminated, by returning or by panicking.
TaskTerminated ==
    \/ sess \in {"returned", "panicked"}
    \/ sol_main \in {"returned", "panicked"}

TaskPanicked == sess = "panicked" \/ sol_main = "panicked"

\* C15, as stated: the termination of either top-level ingestor task,
\* returning normally or panicking, is fatal: as soon as one has terminated
\* main stops waiting and the process ends, so the only step taken after a
\* termination is the return of main.
C15_AnyTerminationIsFatal ==
    [][ TaskTerminated => main_pc' # "joining" ]_vars

\* C15, amended: a panic of either top-level task is fatal: main can stop
\* waiting as soon as a task has panicked, it returns the error, and after
\* that no task takes a step.  A task that returns normally does not end
\* the process: main leaves the join on a panic, or when both tasks have
\* returned, and never otherwise.
C15_PanicIsFatal ==
    /\ [](main_pc = "joining" /\ TaskPanicked => ENABLED MainJoinErr)
    /\ [][main_pc = "joining"]_vars
    /\ [][ /\ main_pc = "joining"
           /\ main_pc' # "joining" =>
                 \/ TaskPanicked /\ main_pc' = "failed"
                 \/ sess = "returned" /\ sol_main = "returned" /\ main_pc' = "finished" ]_vars

\* The streaming EVM ingestor has panicked and main has returned the error,
\* in a configuration whose Solana ingestor had returned at once.
C15_Witness ==
    /\ main_pc = "failed"
    /\ sess = "panicked"
    /\ sol_main = "returned"

\* C16: an unparseable watched address, EVM or Solana, aborts the process
\* before ingestion begins, in every mode: no ingestor works from a list
\* out of which an unparseable entry was dropped, so no event is ever handed
\* to the publisher under such a configuration.
C16_UnparseableAborts ==
    (~AllAddressesParse(cfg.watched_eth) \/ ~AllPubkeysParse(cfg.watched_sol))
        => handed = EmptyBag

(***************************************************************************)
(* The streaming session loop (Spec).                                      *)
(***************************************************************************)

\* The moves of the session loop: a failed connect leads to the 10 s wait
\* and from there to another connect; a connect leads to a running session;
\* a running session ends in the 5 s cooldown, with both sub-trackers gone
\* and their publish calls dropped; the cooldown leads to another connect.
SessionMoves ==
    /\ sess = "connecting" => sess' \in {"connecting", "backoff", "running"}
    /\ sess = "backoff" => sess' \in {"backoff", "connecting"}
    /\ sess = "running" => sess' \in {"running", "cooldown"}
    /\ sess = "cooldown" => sess' \in {"cooldown", "connecting"}
    /\ (sess = "running" /\ sess' = "cooldown") =>
          /\ n_pc' = "off"
          /\ e_pc' = "off"
          /\ \A c \in BagToSet(inflight') : c.by \notin {"native", "erc20"}
    /\ sess' = sess =>
          /\ n_pc = "off" <=> n_pc' = "off"
          /\ e_pc = "off" <=> e_pc' = "off"

\* C17, as stated: in streaming mode the session loop never terminates and
\* cycles through connecting, running, the 10 s wait after a failed connect
\* and the 5 s cooldown after a session; when either sub-tracker returns
\* the other is cancelled, and every new session starts on a new connection
\* with both sub-trackers.
C17_SessionLoop ==
    [][ cfg.eth_mode = "ws" =>
          /\ SessionMoves
          /\ (sess = "connecting" /\ sess' = "running") =>
                n_pc' = "sub" /\ e_pc' = "sub" ]_vars

\* C17, amended: the same when every watched address parses, a session
\* starting the native tracker and, unless the watched list is empty, the
\* ERC-20 tracker.
C17_SessionLoopParsed ==
    [][ (cfg.eth_mode = "ws" /\ AllAddressesParse(cfg.watched_eth)) =>
          /\ SessionMoves
          /\ (sess = "connecting" /\ sess' = "running") =>
                /\ n_pc' = "sub"
                /\ e_pc' = IF cfg.watched_eth = <<>> THEN "off" ELSE "sub" ]_vars

\* The second session of a run is up, with both sub-trackers subscribed,
\* after a first session that emitted events.
C17_Witness ==
    /\ sess = "running"
    /\ sessions = 2
    /\ n_pc = "next"
    /\ e_pc = "next"
    /\ handed # EmptyBag

(***************************************************************************)
(* The events and their ids (Spec, SpecIds).                               *)
(***************************************************************************)

\* C18: in every event handed to the publisher, slot is present exactly
\* when chain is "solana"; token is present, with decimals 18 and an empty
\* symbol, in every erc20_transfer event, of the streaming mode as of the
\* polling mode, and absent in every transfer and solana_tx event.
C18_FieldInvariants ==
    \A h \in BagToSet(handed) :
        /\ (h.ev.slot # NoneV) <=> (h.ev.chain = "solana")
        /\ h.ev.event_type = "erc20_transfer" =>
              /\ h.ev.token # NoneV
              /\ h.ev.token[1].decimals = 18
              /\ h.ev.token[1].symbol = ""
        /\ h.ev.event_type \in {"transfer", "solana_tx"} => h.ev.token = NoneV

\* The (chain, tx_hash, log_index) tuple of a record.
RecordTuple(r) == <<r.chain, r.tx_hash, r.log>>

\* The same, a missing log index counting as index 0.
RecordTupleOrZero(r) ==
    <<r.chain, r.tx_hash, IF r.log = Some(NoneV) THEN Some(Some(0)) ELSE r.log>>

\* C19, as stated: the id construction is injective on (chain, tx_hash,
\* log_index): a native EVM event has the id eth:<tx_hash>, a Solana event
\* sol:<signature>, a polling-mode ERC-20 event eth:<tx_hash>:log<log_index>
\* with 0 for a missing index, and two records with different tuples never
\* receive the same id, a log with index 0 and a log of the same
\* transaction with a missing index included.
C19_IdInjective ==
    f_out # <<>> =>
        /\ \A k \in 1..2 :
              /\ f_in[k].kind = "native" => f_out[k] = "eth:" \o f_in[k].tx_hash
              /\ f_in[k].kind = "solana" => f_out[k] = "sol:" \o f_in[k].tx_hash
              /\ f_in[k].log = Some(NoneV) => f_out[k] = "eth:" \o f_in[k].tx_hash \o ":log0"
              /\ f_in[k].log = Some(Some(1)) => f_out[k] = "eth:" \o f_in[k].tx_hash \o ":log1"
        /\ RecordTuple(f_in[1]) # RecordTuple(f_in[2]) => f_out[1] # f_out[2]

\* C19, amended: the same, except that a missing log index counts as index
\* 0: two records whose tuples differ after that substitution never receive
\* the same id, and a log with index 0 and a log of the same transaction
\* with a missing index do.
C19_IdInjectiveOrZero ==
    f_out # <<>> =>
        /\ \A k \in 1..2 :
              /\ f_in[k].kind = "native" => f_out[k] = "eth:" \o f_in[k].tx_hash
              /\ f_in[k].kind = "solana" => f_out[k] = "sol:" \o f_in[k].tx_hash
              /\ f_in[k].log = Some(NoneV) => f_out[k] = "eth:" \o f_in[k].tx_hash \o ":log0"
              /\ f_in[k].log = Some(Some(1)) => f_out[k] = "eth:" \o f_in[k].tx_hash \o ":log1"
        /\ (RecordTupleOrZero(f_in[1]) = RecordTupleOrZero(f_in[2])) <=> (f_out[1] = f_out[2])

\* The ids of a log with index 0 and of a log of the same transaction with
\* a missing index have been built, and are the same.
C19_Witness ==
    /\ f_out = <<"eth:0xa1:log0", "eth:0xa1:log0">>
    /\ f_in[1].log = Some(Some(0))
    /\ f_in[2].log = Some(NoneV)

(***************************************************************************)
(* The decoding of a Transfer log (SpecDecode).                            *)
(***************************************************************************)

\* C20: decoding round-trips the encoding: from the 32-byte topic made of
\* 12 zero bytes and the 20 bytes of an address a, the address decoded is a;
\* from the 32-byte big-endian encoding of v, the value decoded is the
\* decimal rendering of v.  With topics [_, pad(0x..01), pad(0x..02)] and
\* data 0x..2A the log decodes to from 0x..01, to 0x..02, value 42.
C20_DecodeRoundTrip ==
    f_out # <<>> =>
        /\ f_out.from = f_in.from
        /\ f_out.to = f_in.to
        /\ f_out.value = ToString(f_in.amount)
        /\ (/\ f_in.log.topics[2] = [i \in 1..32 |-> IF i = 32 THEN 1 ELSE 0]
            /\ f_in.log.topics[3] = [i \in 1..32 |-> IF i = 32 THEN 2 ELSE 0]
            /\ f_in.log.data = [i \in 1..32 |-> IF i = 32 THEN 42 ELSE 0]) =>
              /\ f_out.from = [i \in 1..20 |-> IF i = 20 THEN 1 ELSE 0]
              /\ f_out.to = [i \in 1..20 |-> IF i = 20 THEN 2 ELSE 0]
              /\ f_out.value = "42"

\* The log of test_parse_erc20_log has been decoded.
C20_Witness ==
    /\ f_out # <<>>
    /\ f_in.log.topics[2] = [i \in 1..32 |-> IF i = 32 THEN 1 ELSE 0]
    /\ f_in.log.topics[3] = [i \in 1..32 |-> IF i = 32 THEN 2 ELSE 0]
    /\ f_in.log.data = [i \in 1..32 |-> IF i = 32 THEN 42 ELSE 0]
    /\ f_out.value = "42"

(***************************************************************************)
(* The dedup set (Spec).                                                   *)
(***************************************************************************)

\* C21: the dedup set only grows: no step of any ingestor, and no
\* reconnection, restart of a streaming session, chain regression or publish
\* failure, removes an event_id from it; the set after a step contains the
\* set before it.
C21_DedupOnlyGrows ==
    [][processed_txs \subseteq processed_txs']_vars

\* The second streaming session of a run is up, the dedup set holds two
\* ids, and a publish of the native tracker has just returned a failure.
C21_Witness ==
    /\ sess = "running"
    /\ sessions = 2
    /\ n_pc = "failed"
    /\ Cardinality(processed_txs) >= 2

\* How many events with this id the bag of handed events holds.
HandedWith(bag, id) == CountIn(bag, LAMBDA h : h.ev.event_id = id)

\* How many calls of the publisher for this id the bag of calls holds.
CallsWith(bag, id) == CountIn(bag, LAMBDA c : c.event_id = id)

\* The ids of the events whose publish has returned, Ok or Err, to a
\* streaming or Solana task that now stands before the insert of the id
\* (main.rs 285-288, 348-351, 695-698).
ReturnedInHand ==
    (IF n_pc \in {"insert", "failed"} THEN {EthEventId(NativeTxInHand.hash)} ELSE {})
    \cup (IF e_pc \in {"insert", "failed"}
            THEN {EthEventId(EthLogs[e_log].transaction_hash)} ELSE {})
    \cup {SolEventId(SolSig(p)) : p \in {q \in SolTaskIds : s_pc[q] \in {"insert", "failed"}}}

\* C22, as stated: every event_id in the dedup set belongs to an event for
\* which a publish has succeeded.  On what the model records of a publish:
\* for every id in the set some call of the publisher for it has returned,
\* and an id does not enter the set when the only call ever made for it has
\* just returned Err.
C22_MembershipMeansPublished ==
    [][ \A id \in processed_txs' :
            /\ HandedWith(handed', id) > CallsWith(inflight', id)
            /\ ~(/\ id \notin processed_txs
                 /\ id \in FailedInHand
                 /\ HandedWith(handed, id) = 1) ]_vars

\* C22, amended: membership means that a publish of the event was attempted,
\* not that it succeeded: every event_id in the dedup set is the id of an
\* event handed to the publisher.  A streaming tracker and a Solana poll
\* task insert the id once the call has returned, whether with Ok or with
\* Err; the EVM poller inserts it together with handing the event over,
\* before the call returns.
C22_MembershipMeansHanded ==
    /\ [](\A id \in processed_txs : HandedWith(handed, id) >= 1)
    /\ [][ \A id \in processed_txs' \ processed_txs :
              \/ id \in ReturnedInHand
              \/ /\ p_pc \in {"tx", "log"}
                 /\ p_pc' \in {"pub_tx", "pub_log"}
                 /\ HandedWith(handed', id) = HandedWith(handed, id) + 1
                 /\ CallsWith(inflight', id) = CallsWith(inflight, id) + 1 ]_vars

\* The poller has inserted the id of a native transfer and its call of the
\* publisher, the only one ever made for that id, has not returned.
C22_Witness ==
    /\ p_pc = "pub_tx"
    /\ EthEventId(PollTxInHand.hash) \in processed_txs
    /\ HandedWith(handed, EthEventId(PollTxInHand.hash)) = 1
    /\ inflight = Call(EthEventId(PollTxInHand.hash), "poll")

(***************************************************************************)
(* The two chains side by side (Spec).                                     *)
(***************************************************************************)

\* The steps of Solana poll task p.
SolTaskStep(p) ==
    \/ SolPoll(p)
    \/ SolProcess(p)
    \/ SolFetch(p)
    \/ SolPublished(p)
    \/ SolInsert(p)
    \/ SolWatermark(p)
    \/ SolSleep(p)

\* The configuration runs an EVM ingestor and a Solana ingestor.
TwoChains == cfg.eth_mode # "none" /\ cfg.watched_sol # <<>>

\* The state of the EVM ingestor, and the state of the Solana ingestor.
EthState == <<streamVars, pollVars, last_eth_block>>

SolState == <<solVars, sol_main, last_sol_slot>>

\* The chain whose ingestor the task belongs to.
ChainOfTask(by) == IF by \in {"native", "erc20", "poll"} THEN "ethereum" ELSE "solana"

\* What follows the prefix in an event_id: a transaction hash, a hash with
\* a log index, or a signature.
IdBodies ==
    DOMAIN EthTxs
    \cup {h \o ":log" \o Decimal(i) : h \in DOMAIN EthTxs, i \in 0..MaxLogIndex}
    \cup DOMAIN SolLedger

\* The strings that start with "eth:", and those that start with "sol:".
EthPrefixed == {"eth:" \o body : body \in IdBodies}

SolPrefixed == {"sol:" \o body : body \in IdBodies}

\* The ids that carry the prefix of the chain.
ChainPrefixed(chain) == IF chain = "ethereum" THEN EthPrefixed ELSE SolPrefixed

\* The id, found in the dedup set by a task of the chain, is the id of an
\* event of that chain and of no event of the other chain.
SuppressedBy(id, chain) ==
    /\ \E h \in BagToSet(handed) : h.ev.event_id = id
    /\ \A h \in BagToSet(handed) : h.ev.event_id = id => h.ev.chain = chain

PollHands == p_pc \in {"tx", "log"} /\ handed' # handed

EffectiveVar(k) == IF f_in.env[k] # NoneV THEN f_in.env[k] ELSE f_in.file[k]

Ascending(a, b) == [i \in 1..(b - a + 1) |-> a + i - 1]

\* C26: when the block number read, C, is below the watermark, the
\* watermark is set to max(0, C - 10) and the regression logged; the blocks
\* processed are those after the new watermark up to C, or block C alone
\* when C equals the new watermark; the iteration ends with the watermark
\* at C.  For C = 50 under a watermark of 100: 40, blocks 41..50, then 50.
C26_Regression ==
    (f_out # <<>> /\ f_in.last # NoneV /\ f_in.current < f_in.last[1]) =>
        LET C == f_in.current
            new_last == IF C - 10 > 0 THEN C - 10 ELSE 0
        IN /\ f_out.rewound = Some(new_last)
           /\ f_out.logged
           /\ f_out.blocks = IF C = new_last THEN <<C>> ELSE Ascending(new_last + 1, C)
           /\ f_out.last = Some(C)
           /\ (C = 50 /\ f_in.last = Some(100)) =>
                 /\ f_out.rewound = Some(40)
                 /\ f_out.blocks = <<41, 42, 43, 44, 45, 46, 47, 48, 49, 50>>
                 /\ f_out.last = Some(50)

\* The iteration that reads 50 under a watermark of 100 has run.
C26_Witness ==
    /\ f_out # <<>>
    /\ f_in.last = Some(100)
    /\ f_in.current = 50
    /\ f_out.logged

(***************************************************************************)
(* C27.  Polling, the first iteration.                                     *)
(***************************************************************************)
\* C27: with no watermark and the block number C read, the start block is
\* 0 when C > 0 and C otherwise; the blocks processed are start+1..C when
\* C > start and block start alone when C = start, so blocks 1..C without
\* block 0 when C > 0 and block 0 when C = 0; the watermark is C afterwards.
C27_FirstIteration ==
    (f_out # <<>> /\ f_in.last = NoneV) =>
        LET C == f_in.current
            start == IF C > 0 THEN 0 ELSE C
        IN /\ f_out.start = start
           /\ f_out.blocks = IF C > start THEN Ascending(start + 1, C) ELSE <<start>>
           /\ C > 0 => (f_out.blocks = Ascending(1, C)
                          /\ \A i \in 1..Len(f_out.blocks) : f_out.blocks[i] # 0)
           /\ C = 0 => f_out.blocks = <<0>>
           /\ f_out.last = Some(C)

\* A first iteration that read block number 3 has processed blocks 1, 2, 3.
C27_Witness ==
    /\ f_out # <<>>
    /\ f_in.last = NoneV
    /\ f_in.current = 3
    /\ f_out.blocks = <<1, 2, 3>>

(***************************************************************************)
(* C28.  Polling, the normal case.                                         *)
(***************************************************************************)
\* The poller is inside process_eth_block for block p_block.
PollInBlock == p_pc \in {"block", "tx", "pub_tx", "receipt", "log", "pub_log"}

\* C28: an iteration that reads C at or above the watermark `last` leaves
\* the watermark alone and processes last+1 when C > last, C when
\* C = last, first; the blocks of an iteration are taken one after the
\* other, each one above the one before, and the iteration ends only after
\* block C, with the watermark at C; so the range of an iteration starts no
\* later than one past the C of the iteration before, and no block number is
\* left out.  No event is handed to the publisher twice, and the scan of
\* block C again when C = last hands nothing whose id is in the dedup set.
C28_NormalCase ==
    /\ [][ /\ (p_pc = "num" /\ p_pc' # "sleep" /\ last_eth_block # NoneV
               /\ p_current' >= last_eth_block[1]) =>
                 /\ last_eth_block' = last_eth_block
                 /\ p_pc' = "block"
                 /\ p_block' = IF p_current' > last_eth_block[1]
                                 THEN last_eth_block[1] + 1 ELSE p_current'
           /\ (PollInBlock /\ p_pc' = "block") =>
                 (p_block' = p_block + 1 /\ p_block' <= p_current /\ p_current' = p_current)
           /\ (PollInBlock /\ p_pc' \notin {"block", "end", "end_skip"}) =>
                 (p_block' = p_block /\ p_current' = p_current)
           /\ (PollInBlock /\ p_pc' \in {"end", "end_skip"}) =>
                 (p_block = p_current /\ p_current' = p_current)
           /\ PollInBlock => last_eth_block' = last_eth_block
           /\ p_pc \in {"end", "end_skip"} =>
                 (last_eth_block' = Some(p_current) /\ p_pc' = "sleep")
           /\ (p_pc \in {"tx", "log"} /\ last_eth_block = Some(p_current)
               /\ p_block = p_current) =>
                 \A h \in BagToSet(handed') :
                    h.ev.event_id \in processed_txs => CopiesIn(h, handed') = CopiesIn(h, handed)
         ]_vars
    /\ [](\A id \in processed_txs : HandedWith(handed, id) <= 1)

\* The watermark is 1 and the poller, having read 1 again, is at the
\* transaction of block 1, whose id is in the dedup set and whose event was
\* handed to the publisher once.
C28_Witness ==
    /\ p_pc = "tx"
    /\ last_eth_block = Some(1)
    /\ p_current = 1
    /\ p_block = 1
    /\ EthEventId(PollTxInHand.hash) \in processed_txs
    /\ HandedWith(handed, EthEventId(PollTxInHand.hash)) = 1

(***************************************************************************)
(* C29.  The watermark and the blocks that were not scanned to their end.  *)
(***************************************************************************)
\* C29: the watermark of the EVM poller is moved to or past a block number
\* only after that block was fetched and its transactions and receipt logs
\* were all scanned: when process_eth_block has returned from the last block
\* of the range, p_current, without scanning it to its end, the end of the
\* iteration does not set the watermark to p_current or above.
C29_WatermarkCompletedWork ==
    [][ p_pc = "end_skip" =>
          (last_eth_block' = NoneV \/ last_eth_block'[1] < p_current) ]_vars

(***************************************************************************)
(* C30.  The polling loop.                                                 *)
(***************************************************************************)
\* C30: the polling loop never ends: the poller always has a next step; an
\* iteration, the one whose block-number query fails included, goes to the
\* sleep (2 s, main.rs 464) and the sleep to the next block-number query,
\* again and again; an iteration whose query fails processes no block and
\* leaves the watermark and the dedup set as they were.
C30_PollLoop ==
    /\ [](p_pc # "off" /\ ENABLED PollStep)
    /\ [][ /\ p_pc = "sleep" => p_pc' = "num"
           /\ p_pc = "num" => p_pc' \in {"sleep", "block"}
           /\ p_pc \in {"end", "end_skip"} => p_pc' = "sleep"
           /\ PollInBlock => p_pc' \in {"block", "tx", "pub_tx", "receipt", "log", "pub_log",
                                        "end", "end_skip"}
           /\ (p_pc = "num" /\ p_pc' = "sleep") =>
                 UNCHANGED <<last_eth_block, processed_txs, handed, inflight, p_block>>
         ]_vars
    /\ []<>(p_pc = "sleep")
    /\ []<>(p_pc = "num")

\* The block-number query has failed under a watermark of 2 with three ids
\* in the dedup set, and the poller sleeps.
C30_Witness ==
    /\ p_pc = "sleep"
    /\ last_eth_block = Some(2)
    /\ p_current = 2
    /\ Cardinality(processed_txs) >= 3
    /\ ENABLED PollSleep

(***************************************************************************)
(* C31.  Polling: the test-and-set before the publish.                     *)
(***************************************************************************)
\* The id of the record the poller has in hand at the publish.
PollIdInHand ==
    IF p_pc \in {"tx", "pub_tx"} THEN EthEventId(PollTxInHand.hash)
    ELSE EthLogEventId(PollTxInHand.hash, PollLogInHand.log_index)

\* C31: in the polling path an event is handed to the publisher in the very
\* step that finds its id absent from the dedup set and inserts it, and in
\* no other step; so the publisher is called at most once for an event_id;
\* the return of the publish, Ok or Err, leaves the dedup set as it is, the
\* id of the event in it.
C31_PollTestAndSet ==
    /\ [][ /\ handed' # handed =>
                /\ p_pc \in {"tx", "log"}
                /\ PollIdInHand \notin processed_txs
                /\ processed_txs' = processed_txs \cup {PollIdInHand}
                /\ HandedWith(handed', PollIdInHand) = 1
                /\ CallsWith(inflight', PollIdInHand) = 1
           /\ processed_txs' # processed_txs => handed' # handed
           /\ p_pc \in {"pub_tx", "pub_log"} =>
                /\ processed_txs' = processed_txs
                /\ PollIdInHand \in processed_txs'
                /\ CallsWith(inflight', PollIdInHand) = 0
         ]_vars
    /\ [](\A h \in BagToSet(handed) : CopiesIn(h, handed) = 1 /\ h.by = "poll")
    /\ [](\A c \in BagToSet(inflight) : CopiesIn(c, inflight) = 1 /\ c.event_id \in processed_txs)

\* With every record watched, the publish of the event of the transaction of
\* block 1 has returned an Err: the block was left before its receipt, the
\* iteration is at its end, the id is in the dedup set and no call is in
\* flight.
C31_Witness ==
    /\ p_pc = "end_skip"
    /\ p_current = 1
    /\ cfg.watched_eth = <<>>
    /\ last_eth_block = NoneV
    /\ processed_txs = {"eth:0xa1"}
    /\ HandedWith(handed, "eth:0xa1") = 1
    /\ inflight = EmptyBag

(***************************************************************************)
(* C32.  Critical sections.                                                *)
(***************************************************************************)
\* The mutexes task t holds.
HeldBy(t) == {l \in Locks : f_out.owner[l] = t}

\* C32: a task that stands before an await (a network call, a publish, a
\* sleep) or at the end of its iteration holds no mutex; a task that waits
\* for a mutex holds none, so no task ever holds two; an access is made by
\* the holder of the mutex of the value accessed, a membership test or an
\* insert for the dedup set, a read-compare-write for a watermark, and it is
\* the only access between the acquisition and the release.
C32_CriticalSections ==
    \A t \in f_in :
       /\ Cardinality(HeldBy(t)) <= 1
       /\ NextOp(t) = NoneV => HeldBy(t) = {}
       /\ NextOp(t) # NoneV =>
             LET op == NextOp(t)[1] IN
             /\ op.k \in {"await", "acq"} => HeldBy(t) = {}
             /\ op.k \in {"test", "insert"} =>
                   (op.on = "processed_txs" /\ HeldBy(t) = {op.on} /\ f_out.ops[t] = 0)
             /\ op.k = "mark" =>
                   (op.on \in {"last_eth_block", "last_sol_slot"}
                    /\ HeldBy(t) = {op.on} /\ f_out.ops[t] = 0)
             /\ op.k = "rel" => (HeldBy(t) = {op.on} /\ f_out.ops[t] = 1)

\* The fungible-token tracker holds the mutex of the dedup set, before its
\* insert; the native tracker waits for that mutex; the Solana poll task
\* awaits its publish.
C32_Witness ==
    /\ f_in = {"native", "erc20", "sol1"}
    /\ f_out.owner["processed_txs"] = "erc20"
    /\ NextOp("erc20") = Some([k |-> "insert", on |-> "processed_txs"])
    /\ NextOp("native") = Some(Acq("processed_txs"))
    /\ NextOp("sol1") = Some(Await("publish_event_to_redis"))

(***************************************************************************)
(* C33.  Polling: the watched list as a filter.                            *)
(***************************************************************************)
\* The addresses of the list the poller filters with.
InWatchedList(addr) == addr \in {watched_addresses[i] : i \in DOMAIN watched_addresses}

\* The events handed to the publisher in this step.
NewlyHanded == {h \in BagToSet(handed') : CopiesIn(h, handed') > CopiesIn(h, handed)}

\* C33: in polling mode, when the watched list is empty, every transaction
\* the scan comes to whose id is new yields a "transfer" event and every
\* receipt log with three topics and the Transfer signature whose id is new
\* yields an "erc20_transfer" event, whatever the addresses; when the list is
\* not empty an event is emitted only for a record whose from or to is in
\* the list.
C33_PollFilter ==
    [][ /\ (p_pc = "tx" /\ watched_addresses = <<>>
         /\ EthEventId(PollTxInHand.hash) \notin processed_txs) =>
           \E h \in NewlyHanded :
              /\ h.ev.event_type = "transfer"
              /\ h.ev.tx_hash = PollTxInHand.hash
              /\ h.ev.from = PollTxInHand.from
        /\ (p_pc = "log" /\ watched_addresses = <<>>
            /\ Len(PollLogInHand.topics) = 3 /\ PollLogInHand.topics[1] = TransferSig
            /\ EthLogEventId(PollTxInHand.hash, PollLogInHand.log_index)
                  \notin processed_txs) =>
           \E h \in NewlyHanded :
              /\ h.ev.event_type = "erc20_transfer"
              /\ h.ev.tx_hash = PollTxInHand.hash
              /\ h.src = PollTxInHand.logs[p_li]
        /\ watched_addresses # <<>> =>
              \A h \in NewlyHanded : InWatchedList(h.ev.from) \/ InWatchedList(h.ev.to)
        /\ (p_pc = "tx" /\ watched_addresses # <<>> /\ NewlyHanded # {}) =>
              \/ InWatchedList(PollTxInHand.from)
              \/ PollTxInHand.to # NoneV /\ InWatchedList(PollTxInHand.to[1])
        /\ (p_pc = "log" /\ NewlyHanded # {}) =>
              (Len(PollLogInHand.topics) = 3 /\ PollLogInHand.topics[1] = TransferSig)
      ]_vars

\* With an empty watched list the poller is publishing the event of L5, a
\* Transfer log from 0xx to 0xy, and the transfer of its transaction 0xb2,
\* from 0xx to 0xy, was handed to the publisher before.
C33_Witness ==
    /\ cfg.watched_eth = <<>>
    /\ p_pc = "pub_log"
    /\ PollTxInHand.logs[p_li] = "L5"
    /\ \E h \in BagToSet(handed) : h.src = "L5" /\ h.ev.event_type = "erc20_transfer"
    /\ \E h \in BagToSet(handed) : h.src = "0xb2" /\ h.ev.event_type = "transfer"

(***************************************************************************)
(* C34.  Streaming with an empty watched list.                             *)
(***************************************************************************)
\* C34: in streaming mode with an empty watched list the fungible-token
\* tracker is never started, in no session: a session runs the native
\* tracker alone, no "erc20_transfer" event is ever handed to the publisher,
\* and when the native tracker returns the session goes to its cooldown
\* (5 s, main.rs 194), from which it reconnects.
C34_EmptyListNativeOnly ==
    /\ [](cfg.watched_eth = <<>> =>
             /\ e_pc = "off"
             /\ sess = "running" => n_pc # "off"
             /\ \A h \in BagToSet(handed) :
                   h.ev.event_type # "erc20_transfer" /\ h.by # "erc20"
             /\ sess = "cooldown" => ENABLED EthCooldownDone)
    /\ [][cfg.watched_eth = <<>> =>
             /\ (sess = "connecting" /\ sess' = "running") =>
                   (n_pc' = "sub" /\ e_pc' = "off")
             /\ (n_pc # "off" /\ n_pc' = "off") => sess' = "cooldown"
             /\ sess = "cooldown" => sess' = "connecting"
             /\ (sess = "running" /\ sess' # "running") =>
                   (n_pc' = "off" /\ sess' = "cooldown")
         ]_vars

\* With an empty watched list the second session runs, after the native
\* tracker of the first returned and the cooldown ended: the native tracker
\* has a block in hand and the fungible-token tracker is off.
C34_Witness ==
    /\ cfg.eth_mode = "ws"
    /\ cfg.watched_eth = <<>>
    /\ sessions = 2
    /\ sess = "running"
    /\ n_pc = "txs"
    /\ e_pc = "off"

(***************************************************************************)
(* C35.  An empty Solana watched list.                                     *)
(***************************************************************************)
\* C35: when the Solana watched list is empty, track_solana_transfers has
\* returned and no poll task exists; no signature list is held and no
\* transaction is in hand; no "solana_tx" event is handed to the publisher
\* and no publish is in flight for a Solana task; last_sol_slot is none; and
\* the EVM ingestor goes on: main stays at its join until the EVM task itself
\* ends, and until then the EVM ingestor has a next step.
C35_EmptySolanaList ==
    cfg.watched_sol = <<>> =>
        /\ sol_main = "returned"
        /\ \A p \in SolTaskIds : s_pc[p] = "off" /\ s_sigs[p] = <<>>
        /\ \A h \in BagToSet(handed) :
              h.ev.event_type # "solana_tx" /\ h.ev.chain # "solana"
        /\ \A c \in BagToSet(inflight) : c.by \in {"native", "erc20", "poll"}
        /\ \A id \in processed_txs : id \notin SolPrefixed
        /\ last_sol_slot = NoneV
        /\ main_pc # "joining" => sess \in {"panicked", "returned"}
        /\ (main_pc = "joining" /\ sess \notin {"panicked", "returned"}) =>
              ENABLED (StreamStep \/ PollStep)

\* With an empty Solana list the EVM poller has set its watermark to 2 and
\* is publishing again, the Solana task long returned.
C35_Witness ==
    /\ cfg.watched_sol = <<>>
    /\ cfg.eth_mode = "http"
    /\ sol_main = "returned"
    /\ last_eth_block = Some(2)
    /\ p_pc = "pub_tx"
    /\ last_sol_slot = NoneV

(***************************************************************************)
(* C36.  Solana: the dedup test before the fetch.                          *)
(***************************************************************************)
\* Poll task p takes a step.
SolTaskMoves(p) == s_pc'[p] # s_pc[p] \/ s_i'[p] # s_i[p] \/ s_sigs'[p] # s_sigs[p]

NativePublishedId == EthEventId(NativeTxInHand.hash)

Erc20PublishedId == EthEventId(EthLogs[e_log].transaction_hash)

\* C37: in streaming mode an event a sub-tracker has published successfully
\* has its event_id in the dedup set eventually, also when the sibling
\* sub-tracker returns and select! tears the session down while the first
\* one stands between the completed publish and the insert.
C37_PublishedEventuallyInserted ==
    /\ \A id \in EthPrefixed :
          (n_pc = "insert" /\ NativePublishedId = id) ~> (id \in processed_txs)
    /\ \A id \in EthPrefixed :
          (e_pc = "insert" /\ Erc20PublishedId = id) ~> (id \in processed_txs)

(***************************************************************************)
(* The per-address poll loops of the Solana ingestor and the task that     *)
(* spawns them (main.rs 565-641, 726-765, 767-840).  f_in is the           *)
(* configuration: the mode of SOL_RPC_URL and the parsed watched list.     *)
(* f_out.main is the position of track_solana_transfers, f_out.tasks the   *)
(* detached tasks tokio::spawn has started, in spawn order, each with the  *)
(* address it polls and its position in its loop.  A poll loop has no      *)
(* break and no return, and its JoinHandle is dropped at once, so a        *)
(* spawned task lives as long as the runtime.                              *)
(***************************************************************************)
MaxPollers == 4

SpawnConfigs ==
    {[sol_mode |-> m, watched |-> w] :
        m \in {"ws", "http"}, w \in {<<"A">>, <<"A", "B">>}}

\* main.rs 583-640, 782-835: the for loop over the watched addresses, one
\* tokio::spawn for each.
SpawnPollLoops(tasks, watched) ==
    tasks \o [i \in DOMAIN watched |-> [addr |-> watched[i], pc |-> "poll"]]

\* What no step of the spawn harness touches.
SpawnFrame ==
    UNCHANGED <<f_in, retryVars, cfg, processed_txs, last_eth_block, last_sol_slot,
                histVars, streamVars, pollVars, solVars, pubVars, supVars>>

\* main.rs 749-762 with 565-641: subscribe_to_solana_transfers has no await
\* of its own; it spawns the poll loops and returns Ok(()), the caller logs
\* "Solana subscription stream ended. This should not happen." and starts
\* its 5 s sleep.
SubscribeToSolanaTransfers ==
    /\ f_in.sol_mode = "ws"
    /\ f_out.main = "call"
    /\ Len(f_out.tasks) + Len(f_in.watched) <= MaxPollers
    /\ f_out' = [main |-> "sleep", tasks |-> SpawnPollLoops(f_out.tasks, f_in.watched)]
    /\ SpawnFrame

\* main.rs 763, 749: the 5 s sleep ends and the loop calls
\* subscribe_to_solana_transfers again.
SubscribeSleepDone ==
    /\ f_out.main = "sleep"
    /\ f_out' = [f_out EXCEPT !.main = "call"]
    /\ SpawnFrame

\* main.rs 729-742, 775-840: poll_solana_transfers spawns the poll loops
\* once and stays in its keep-alive loop.
PollSolanaTransfers ==
    /\ f_in.sol_mode = "http"
    /\ f_out.main = "call"
    /\ f_out' = [main |-> "keepalive", tasks |-> SpawnPollLoops(f_out.tasks, f_in.watched)]
    /\ SpawnFrame

\* main.rs 590-636, 786-832: one round of the poll loop i: the signatures
\* are fetched and processed.
PollLoopRound(i) ==
    /\ f_out.tasks[i].pc = "poll"
    /\ f_out' = [f_out EXCEPT !.tasks[i].pc = "sleep"]
    /\ SpawnFrame

\* main.rs 637, 833: the 5 s sleep of the poll loop i ends.
PollLoopSleepDone(i) ==
    /\ f_out.tasks[i].pc = "sleep"
    /\ f_out' = [f_out EXCEPT !.tasks[i].pc = "poll"]
    /\ SpawnFrame

\* track_solana_transfers about to start its poll loops, none spawned yet.
SpawnInit ==
    /\ RetryIdle
    /\ PipeIdle
    /\ f_in \in SpawnConfigs
    /\ f_out = [main |-> "call", tasks |-> <<>>]

SpawnNext ==
    \/ SubscribeToSolanaTransfers
    \/ SubscribeSleepDone
    \/ PollSolanaTransfers
    \/ \E i \in DOMAIN f_out.tasks : PollLoopRound(i)
    \/ \E i \in DOMAIN f_out.tasks : PollLoopSleepDone(i)

SpecSpawn == SpawnInit /\ [][SpawnNext]_vars

(***************************************************************************)
(* C38: one poll loop per watched Solana address.                          *)
(***************************************************************************)

\* The poll loops alive for the address a.
LivePollLoops(a) == {i \in DOMAIN f_out.tasks : f_out.tasks[i].addr = a}

\* C38: at every moment there is at most one live poll loop per watched
\* Solana address, in http mode and in ws mode alike: the number of live
\* poll loops never exceeds the number of watched addresses.
C38_OnePollLoopPerAddress ==
    /\ Len(f_out.tasks) <= Len(f_in.watched)
    /\ \A i \in DOMAIN f_in.watched : Cardinality(LivePollLoops(f_in.watched[i])) <= 1

(***************************************************************************)
(* C39: a failed publish and the rest of the block in polling mode.        *)
(***************************************************************************)

\* The poller has a record of its block still to scan after the log in
\* hand: a further log of the receipt, or a further transaction.
PollMoreAfterLog ==
    \/ p_li < Len(PollTxInHand.logs)
    \/ p_ti < Len(PollBlockInHand.transactions)

\* C39: in polling mode the return of a publish, Ok or Err, is followed by
\* the rest of the block: after the event of a transaction the receipt of
\* that transaction is taken, and after the event of a log the next log or
\* the next transaction of the same block, so that every transaction and
\* every receipt log of a processed block is examined.
C39_BlockScannedToEnd ==
    [][ /\ (p_pc = "pub_tx" /\ p_pc' # "pub_tx")
           => (p_pc' = "receipt" /\ p_block' = p_block /\ p_ti' = p_ti)
        /\ (p_pc = "pub_log" /\ p_pc' # "pub_log" /\ PollMoreAfterLog)
           => (p_pc' \in {"log", "tx"} /\ p_block' = p_block) ]_vars

(***************************************************************************)
(* C40: soundness of the EVM filter against the configured list.           *)
(***************************************************************************)

\* The entry is one of WATCHED_ADDRESSES_ETH as configured.
InConfiguredList(addr) == \E i \in DOMAIN cfg.watched_eth : cfg.watched_eth[i] = addr

\* C40: when the configured EVM watched list is not empty, every event an
\* EVM ingestor hands to the publisher has its from or its to in the
\* configured list, in polling mode also when entries of the list are not
\* valid addresses.
C40_FilterSound ==
    cfg.watched_eth # <<>> =>
        \A h \in BagToSet(handed) :
            h.ev.chain = "ethereum" =>
                InConfiguredList(h.ev.from) \/ InConfiguredList(h.ev.to)

====
